---- MODULE Spec2Model ----
(***************************************************************************)
(* Verification model of the Kalshi anomaly detector's ingestion and       *)
(* detection core:                                                         *)
(*   - the anomaly logger (services/detector.py, log_anomaly), one pass    *)
(*     at a time and two passes interleaved,                               *)
(*   - the retrying request executor (services/kalshi_service.py,          *)
(*     _request under its tenacity retry decorator),                       *)
(*   - the rate limiter (_rate_limit_distributed, _rate_limit_local),      *)
(*   - the ingestion run (tasks/monitor.py, update_market_data), its       *)
(*     handler at the job boundary with the task's retries, and two runs   *)
(*     inserting trades at once,                                           *)
(*   - the cursor pagination (get_all_events, get_all_markets),            *)
(*   - the fan-out over events (get_all_markets_from_events),              *)
(*   - the trade normalization of the ingestion run,                       *)
(*   - the detector's baseline, signals and score (services/detector.py)   *)
(*     and the detection job (tasks/monitor.py, run_anomaly_detection),    *)
(*   - the trader profiles (services/detector.py, update_trader_profiles). *)
(* Each subsystem has its own next-state relation and specification over   *)
(* the one set of variables; a subsystem's actions leave the others'       *)
(* variables unchanged.                                                    *)
(*                                                                         *)
(* Units.  Scores are in thousandths (8.0 is 8000).  Logger time is in     *)
(* ticks of 1/HourTicks hour.  Rate-limiter time is in ticks of            *)
(* 1/(MaxRps * SleepTicks) second, so that window / max_rps is exactly     *)
(* SleepTicks ticks.                                                       *)
(***************************************************************************)
EXTENDS Integers, Sequences, FiniteSets, TLC

VARIABLES
    \* ---- anomaly logger -------------------------------------------------
    anomalies,   \* the anomalies table: a sequence of rows, id = index
    insertLog,   \* history: per score, the severity a row inserted with it was given
    lastLog,     \* history: the last log_anomaly / resolve call and what it returned
    clock,       \* datetime.now(timezone.utc), in ticks
    passPc,      \* per detection pass in log_anomaly: "idle" or "read"
    passSeen,    \* per detection pass: its arguments and what its query gave
    \* ---- retrying request executor and the fetcher calling it -----------
    reqPc,       \* "idle", "attempt", "sleep" (backoff) or "returned"
    endpoint,    \* the fetcher in progress: "events", "markets" or "trades"
    attempt,     \* tenacity's attempt_number of the call in progress
    outcomes,    \* history: what the transport did on each attempt of the call
    reqTrace,    \* history: the rate-limit acquisitions and sends of the call
    waits,       \* history: the backoff sleeps of the call, in seconds
    reqResult,   \* what _request gave its caller
    fetched,     \* what the fetcher gave its caller
    metrics,     \* APIMetrics of the client
    calls,       \* number of _request calls made by the client
    \* ---- rate limiter: client instances sharing one counter store -------
    now,         \* time.time(), in ticks
    store,       \* the sorted set kalshi:api:ratelimit:global
    storeExpiry, \* when the key expires unless written again
    rlPc,        \* per caller: "idle", "sleep_shared", "sleep_local" or "raised"
    wakeAt,      \* per caller: when its asyncio.sleep is due to end
    lastRequestTime, \* per client instance: _last_request_time
    requestCount,    \* per client instance: _request_count
    rateLimited,     \* per client instance: metrics.rate_limited_requests
    released,    \* history: when, and by which instance, requests were let through
    \* ---- ingestion run: tasks/monitor.py, update_market_data -------------
    marketRows,  \* the markets table: the tickers that have a row
    trades,      \* the trades table: a sequence of rows, id = index
    runPc,       \* "idle", "trades" (the per-market loop) or "aborted"
    runMarkets,  \* the markets list the run fetched
    runIdx,      \* the loop's position in runMarkets
    error_count, \* the run's error counter
    lastIng,     \* history: what the last step of the run did
    request_retries, \* self.request.retries of the run in progress or due
    jobEnd,      \* history: how the last run ended, and with which retries
    overlap,     \* per overlapping run: its statement in progress and counters
    \* ---- cursor pagination: get_all_events / get_all_markets -------------
    pgPc,        \* "idle", "loop", "returned" or "raised"
    pgServer,    \* the pages the exchange serves for the call in progress
    pgMax,       \* max_events / max_markets of the call
    pgCursor,    \* the cursor held by the loop: the page it points to
    all_items,   \* all_events / all_markets
    page_num,    \* the number of page requests the call has made
    \* ---- fan-out: get_all_markets_from_events ----------------------------
    fanCall,     \* "idle", "gather", "returned" or "raised"
    fanEvents,   \* the events of the call, after filtering
    fanPc,       \* per event task: "waiting", "fetching", "done", "raised", "cancelled"
    fanResults,  \* per event task: the list it returned
    fanReturn,   \* what the call returned
    \* ---- detector: services/detector.py, AnomalyDetector ------------------
    baselines,   \* the baselines table: a sequence of rows, id = index
    batches,     \* history: the trade batches stored for the detector
    detOut,      \* history: the last detector call and what it returned
    profiles,    \* the trader_profiles table: a sequence of rows, id = index
    \* ---- trade normalization: monitor.py, the per-trade parse -------------
    norm         \* history: the last fetched record and the row built from it

raceVars == <<passPc, passSeen>>

logVars == <<anomalies, insertLog, lastLog, clock, passPc, passSeen>>

reqVars == <<reqPc, endpoint, attempt, outcomes, waits, reqResult, fetched,
             metrics, calls, reqTrace>>

rlVars == <<now, store, storeExpiry, rlPc, wakeAt, lastRequestTime,
            requestCount, rateLimited, released>>

jobVars == <<request_retries, jobEnd>>

ovlVars == <<overlap>>

ingVars == <<marketRows, trades, runPc, runMarkets, runIdx, error_count,
             lastIng, request_retries, jobEnd, overlap>>

pageVars == <<pgPc, pgServer, pgMax, pgCursor, all_items, page_num>>

fanVars == <<fanCall, fanEvents, fanPc, fanResults, fanReturn>>

detVars == <<baselines, batches, detOut, norm, profiles>>

vars == <<anomalies, insertLog, lastLog, clock, passPc, passSeen,
          reqPc, endpoint, attempt, outcomes, waits, reqResult, fetched,
          metrics, calls, reqTrace,
          now, store, storeExpiry, rlPc, wakeAt, lastRequestTime,
          requestCount, rateLimited, released,
          marketRows, trades, runPc, runMarkets, runIdx, error_count,
          lastIng, request_retries, jobEnd, overlap,
          pgPc, pgServer, pgMax, pgCursor, all_items, page_num,
          fanCall, fanEvents, fanPc, fanResults, fanReturn,
          baselines, batches, detOut, norm, profiles>>

----------------------------------------------------------------------------
(* Bounds of the model *)

MaxRows == 2
MaxTime == 3
HourTicks == 2
MaxCalls == 2
NumClients == 3
NumInstances == 2
MaxMarkets == 2
MaxBatch == 1
MaxMalformed == 21
MaxPages == 2
MaxPageItems == 2
MaxItemCap == 3
NumEvents == 3
MaxConcurrent == 2
MaxRps == 2
SleepTicks == 2
MaxRequests == 2
RlMaxTime == 5
MaxBlocks == 2

----------------------------------------------------------------------------
(* Anomaly logger: detector.py, AnomalyDetector.log_anomaly *)

Tickers == {"MKT1", "MKT2"}
AnomalyTypes == {"volume"}
Details == {"d1", "d2"}
\* scores at the severity thresholds, just below the lowest and inside a
\* band, in thousandths
BandScores == {4999, 5000, 6000, 7000, 8000}
\* the two scores the dedup runs are driven with (both of one band)
Scores == {5000, 6000}

CriticalScore == 8000
HighScore == 7000
MediumScore == 5000

Max(a, b) == IF a >= b THEN a ELSE b

\* mutant: the thresholds compared with > instead of >=
SeverityStrict(score) ==
    IF score > CriticalScore THEN "critical"
    ELSE IF score > HighScore THEN "high"
    ELSE IF score > MediumScore THEN "medium"
    ELSE "low"

\* detector.py:313-320, the severity of a new row
Severity(score) ==
    IF score >= CriticalScore THEN "critical"
    ELSE IF score >= HighScore THEN "high"
    ELSE IF score >= MediumScore THEN "medium"
    ELSE "low"

\* mutant: the one-hour lookback compared with > instead of >=
DedupFilterStrict(row, ticker, anomaly_type, lookback) ==
    /\ row.ticker = ticker
    /\ row.anomaly_type = anomaly_type
    /\ row.detected_at > lookback
    /\ row.resolved = FALSE

\* mutant: the dedup query without its resolved filter
DedupFilterAnyState(row, ticker, anomaly_type, lookback) ==
    /\ row.ticker = ticker
    /\ row.anomaly_type = anomaly_type
    /\ row.detected_at >= lookback

\* detector.py:298-303, the filter of the dedup query
DedupFilter(row, ticker, anomaly_type, lookback) ==
    /\ row.ticker = ticker
    /\ row.anomaly_type = anomaly_type
    /\ row.detected_at >= lookback
    /\ row.resolved = FALSE

\* detector.py:322-330, the row a new detection inserts
NewAnomaly(ticker, anomaly_type, score, details, at) ==
    [ticker |-> ticker, anomaly_type |-> anomaly_type, score |-> score,
     severity |-> Severity(score), details |-> details,
     detected_at |-> at, resolved |-> FALSE]

\* mutant: the new score overwrites the existing one
MergeExistingLastWins(row, score, details) ==
    [row EXCEPT !.score = score, !.details = details]

\* detector.py:307-311, the merge of a re-detection into the existing row
MergeExisting(row, score, details) ==
    [row EXCEPT !.score = Max(row.score, score), !.details = details]

\* detector.py:286-335.  The dedup query reads the clock (line 294); the
\* insert reads it again (line 328), d ticks later.  .first() has no ORDER
\* BY: any matching row may be the one returned.
LogAnomaly(ticker, anomaly_type, score, details) ==
    LET lookback == clock - HourTicks
        found == {i \in DOMAIN anomalies :
                    DedupFilter(anomalies[i], ticker, anomaly_type, lookback)}
    IN  IF found # {}
        THEN \E i \in found :
               /\ anomalies' = [anomalies EXCEPT
                                  ![i] = MergeExisting(@, score, details)]
               /\ lastLog' = [op |-> "update", ret |-> i]
               /\ UNCHANGED <<insertLog, clock, raceVars>>
               /\ UNCHANGED <<reqVars, rlVars, ingVars, pageVars, fanVars>>
        ELSE \E d \in 0..1 :
               /\ Len(anomalies) < MaxRows
               /\ clock + d <= MaxTime
               /\ clock' = clock + d
               /\ anomalies' = Append(anomalies,
                     NewAnomaly(ticker, anomaly_type, score, details, clock'))
               /\ insertLog' = [insertLog EXCEPT ![score] = Severity(score)]
               /\ lastLog' = [op |-> "insert", ret |-> Len(anomalies) + 1]
               /\ UNCHANGED raceVars
               /\ UNCHANGED <<reqVars, rlVars, ingVars, pageVars, fanVars>>

\* Marking an anomaly resolved (the reporting layer's write operation):
\* sets the resolved flag of an unresolved row.
MarkResolved(i) ==
    /\ i \in DOMAIN anomalies
    /\ anomalies[i].resolved = FALSE
    /\ anomalies' = [anomalies EXCEPT ![i].resolved = TRUE]
    /\ lastLog' = [op |-> "resolve", ret |-> i]
    /\ UNCHANGED <<insertLog, clock, raceVars>>
    /\ UNCHANGED <<reqVars, rlVars, ingVars, pageVars, fanVars, detVars>>

\* the passage of time between two calls
LogTick ==
    /\ clock < MaxTime
    /\ clock' = clock + 1
    /\ UNCHANGED <<anomalies, insertLog, lastLog, raceVars>>
    /\ UNCHANGED <<reqVars, rlVars, ingVars, pageVars, fanVars, detVars>>

\* ---- two detection passes in log_anomaly at once ---------------------------

\* the two detection passes (worker processes, each with a session of its
\* own)
Passes == {1, 2}

\* what a pass holds between its dedup query and its write
NoRead == [ticker |-> "None", anomaly_type |-> "None", score |-> 0,
           details |-> "None", existing |-> 0, existing_score |-> 0,
           rows |-> 0]

\* detector.py:294-305, the dedup query of a pass: `existing` is a matching
\* row as the store holds it now, or none
PassRead(p, ticker, anomaly_type, score, details) ==
    /\ passPc[p] = "idle"
    /\ LET lookback == clock - HourTicks
           found == {i \in DOMAIN anomalies :
                       DedupFilter(anomalies[i], ticker, anomaly_type, lookback)}
       IN  \E i \in (IF found = {} THEN {0} ELSE found) :
             passSeen' = [passSeen EXCEPT ![p] =
                 [ticker |-> ticker, anomaly_type |-> anomaly_type,
                  score |-> score, details |-> details, existing |-> i,
                  existing_score |-> IF i = 0 THEN 0 ELSE anomalies[i].score,
                  rows |-> Len(anomalies)]]
    /\ passPc' = [passPc EXCEPT ![p] = "read"]
    /\ UNCHANGED <<anomalies, insertLog, lastLog, clock>>
    /\ UNCHANGED <<reqVars, rlVars, ingVars, pageVars, fanVars, detVars>>

\* detector.py:307-335, the write of a pass.  The merge is computed from
\* the row as the pass read it; the UPDATE carries the columns it changed.
PassWrite(p) ==
    /\ passPc[p] = "read"
    /\ LET seen == passSeen[p]
       IN  IF seen.existing # 0
           THEN LET i == seen.existing
                    merged == MergeExisting(
                        [anomalies[i] EXCEPT !.score = seen.existing_score],
                        seen.score, seen.details)
                IN  /\ anomalies' = [anomalies EXCEPT
                          ![i].score = IF merged.score # seen.existing_score
                                       THEN merged.score ELSE @,
                          ![i].details = merged.details]
                    /\ lastLog' = [op |-> "update", ret |-> i]
                    /\ UNCHANGED <<insertLog, clock>>
           ELSE \E d \in 0..1 :
                  /\ Len(anomalies) < MaxRows
                  /\ clock + d <= MaxTime
                  /\ clock' = clock + d
                  /\ anomalies' = Append(anomalies,
                        NewAnomaly(seen.ticker, seen.anomaly_type, seen.score,
                                   seen.details, clock'))
                  /\ insertLog' = [insertLog EXCEPT
                                     ![seen.score] = Severity(seen.score)]
                  /\ lastLog' = [op |-> "insert", ret |-> Len(anomalies) + 1]
    /\ passPc' = [passPc EXCEPT ![p] = "idle"]
    /\ passSeen' = [passSeen EXCEPT ![p] = NoRead]
    /\ UNCHANGED <<reqVars, rlVars, ingVars, pageVars, fanVars, detVars>>

InitLogger ==
    /\ passPc = [p \in Passes |-> "idle"]
    /\ passSeen = [p \in Passes |-> NoRead]
    /\ anomalies = <<>>
    /\ insertLog = [s \in BandScores |-> "none"]
    /\ lastLog = [op |-> "none", ret |-> 0]
    /\ clock = 0

----------------------------------------------------------------------------
(* Retrying request executor: kalshi_service.py, KalshiAPI._request under   *)
(* its tenacity decorator, and the page fetchers that call it              *)

MaxAttempts == 3
WaitMultiplier == 1
WaitMin == 2
WaitMax == 10

Min(a, b) == IF a <= b THEN a ELSE b

None == "None"

\* What the transport can do on one attempt: answer with a status (a 200
\* answer carries a body that decodes as JSON or does not), time out, fail
\* to connect, or fail in another way (a read or protocol error).
Outcomes ==
    [kind : {"response"}, status : {200}, json_ok : BOOLEAN]
    \cup [kind : {"response"}, status : {400, 404, 429, 500},
          json_ok : {TRUE}]
    \cup [kind : {"timeout", "connect_error", "other_error"},
          status : {0}, json_ok : {TRUE}]

Endpoints == {"events", "markets", "trades"}

\* the decoded body of a 200 answer of each endpoint
OkBody(ep) ==
    CASE ep = "events" -> [events |-> <<"EV1", "EV2">>, cursor |-> "cur1"]
      [] ep = "markets" -> [markets |-> <<"MKT1", "MKT2">>, cursor |-> "cur1"]
      [] ep = "trades" -> [trades |-> <<"tr1", "tr2">>]

\* the empty dict
EmptyDict == << >>

\* dict.get(key, default)
DictGet(d, key, default) == IF key \in DOMAIN d THEN d[key] ELSE default

\* kalshi_service.py:397-421, what the try block raises, "none" if it returns
\* (raise_for_status raises for 4xx and 5xx; response.json() raises on an
\* undecodable body)
RaisedBy(o) ==
    CASE o.kind = "timeout" -> "TimeoutException"
      [] o.kind = "connect_error" -> "ConnectError"
      [] o.kind = "other_error" -> "NetworkError"
      [] o.kind = "response" /\ o.status >= 400 -> "HTTPStatusError"
      [] o.kind = "response" /\ o.status < 400 /\ ~o.json_ok -> "JSONDecodeError"
      [] OTHER -> "none"

\* mutant: a 404 answer is raised like any other 4xx
AttemptResultRaisesNotFound(o, ep) ==
    IF o.kind = "response" /\ o.status < 400 /\ o.json_ok
    THEN [kind |-> "return", exc |-> "none", data |-> OkBody(ep)]
    ELSE [kind |-> "raise", exc |-> RaisedBy(o), data |-> EmptyDict]

\* kalshi_service.py:393-455, one execution of the body of _request: what
\* it returns or raises
AttemptResult(o, ep) ==
    IF o.kind = "response" /\ o.status < 400 /\ o.json_ok
    THEN [kind |-> "return", exc |-> "none", data |-> OkBody(ep)]
    ELSE IF o.kind = "response" /\ o.status >= 400
    THEN IF o.status = 429
         THEN [kind |-> "raise", exc |-> RaisedBy(o), data |-> EmptyDict]
         ELSE IF o.status = 404
         THEN [kind |-> "return", exc |-> "none", data |-> EmptyDict]
         ELSE IF o.status >= 500
         THEN [kind |-> "raise", exc |-> RaisedBy(o), data |-> EmptyDict]
         ELSE [kind |-> "raise", exc |-> RaisedBy(o), data |-> EmptyDict]
    ELSE [kind |-> "raise", exc |-> RaisedBy(o), data |-> EmptyDict]

\* kalshi_service.py:390-391, 416-419, 424-425, 446-447, 452-453: the
\* counters one execution of the body updates.  A 200 answer is counted as
\* successful before its body is decoded; an undecodable body then reaches
\* the generic handler, which counts it as failed too.
AttemptMetrics(m, o) ==
    LET ok == o.kind = "response" /\ o.status < 400
        failed == RaisedBy(o) # "none"
    IN  [total_requests |-> m.total_requests + 1,
         successful_requests |->
             m.successful_requests + (IF ok THEN 1 ELSE 0),
         failed_requests |-> m.failed_requests + (IF failed THEN 1 ELSE 0)]

\* mutant: connection failures are not in the retried exception types
RetryIfExceptionTypeNoConnect(exc) ==
    exc \in {"HTTPStatusError", "TimeoutException"}

\* kalshi_service.py:347-351, retry_if_exception_type
RetryIfExceptionType(exc) ==
    exc \in {"HTTPStatusError", "TimeoutException", "ConnectError"}

\* mutant: the executor stops one attempt later
StopAfterAttemptLate(attempt_number) == attempt_number >= MaxAttempts + 1

\* kalshi_service.py:345, stop_after_attempt(3)
StopAfterAttempt(attempt_number) == attempt_number >= MaxAttempts

RECURSIVE Pow2(_)
Pow2(n) == IF n <= 0 THEN 1 ELSE 2 * Pow2(n - 1)

\* kalshi_service.py:346, wait_exponential(multiplier=1, min=2, max=10):
\* multiplier * 2^(attempt_number - 1), clamped to [min, max]
WaitExponential(attempt_number) ==
    Max(WaitMin, Min(WaitMultiplier * Pow2(attempt_number - 1), WaitMax))

\* kalshi_service.py:353, reraise=True: what the executor raises when it
\* gives up after a failed attempt
ExhaustedError(lastExc) == lastExc

\* mutant: the rate limit is acquired once per call, before the first
\* attempt only
AttemptEventsFirstOnly(attempt_number) ==
    IF attempt_number = 1 THEN <<"acquire", "send">> ELSE <<"send">>

\* kalshi_service.py:380-403, what one execution of the body of _request
\* does before it has an outcome: _enforce_rate_limit is awaited, then the
\* request is sent
AttemptEvents(attempt_number) == <<"acquire", "send">>

\* a fetcher calls _request (kalshi_service.py:482, 569, 771)
ReqCall(ep) ==
    /\ reqPc = "idle"
    /\ calls < MaxCalls
    /\ calls' = calls + 1
    /\ endpoint' = ep
    /\ reqPc' = "attempt"
    /\ attempt' = 1
    /\ outcomes' = << >>
    /\ reqTrace' = << >>
    /\ waits' = << >>
    /\ reqResult' = [kind |-> "none", exc |-> "none", data |-> EmptyDict]
    /\ fetched' = [kind |-> "none", exc |-> "none", items |-> << >>,
                   cursor |-> None]
    /\ UNCHANGED metrics
    /\ UNCHANGED <<logVars, rlVars, ingVars, pageVars, fanVars, detVars>>

\* kalshi_service.py:344-455, one attempt: the rate-limit acquisition, the
\* send, the classification of the outcome, and the decision of the retry
\* decorator (return, re-raise, or back off and try again)
ReqAttempt(o) ==
    /\ reqPc = "attempt"
    /\ outcomes' = Append(outcomes, o)
    /\ reqTrace' = reqTrace \o AttemptEvents(attempt)
    /\ metrics' = AttemptMetrics(metrics, o)
    /\ LET r == AttemptResult(o, endpoint)
       IN  IF r.kind = "return"
           THEN /\ reqResult' = r
                /\ reqPc' = "returned"
           ELSE IF ~RetryIfExceptionType(r.exc)
           THEN /\ reqResult' = r
                /\ reqPc' = "returned"
           ELSE IF StopAfterAttempt(attempt)
           THEN /\ reqResult' = [r EXCEPT !.exc = ExhaustedError(r.exc)]
                /\ reqPc' = "returned"
           ELSE /\ reqResult' = reqResult
                /\ reqPc' = "sleep"
    /\ UNCHANGED <<endpoint, attempt, waits, fetched, calls>>
    /\ UNCHANGED <<logVars, rlVars, ingVars, pageVars, fanVars, detVars>>

\* the backoff sleep of the retry decorator before the next attempt
ReqBackoff ==
    /\ reqPc = "sleep"
    /\ waits' = Append(waits, WaitExponential(attempt))
    /\ attempt' = attempt + 1
    /\ reqPc' = "attempt"
    /\ UNCHANGED <<endpoint, outcomes, reqResult, fetched, metrics, calls,
                   reqTrace>>
    /\ UNCHANGED <<logVars, rlVars, ingVars, pageVars, fanVars, detVars>>

\* kalshi_service.py:482-486, 569-573, 771-774: the fetcher takes its items
\* (and cursor) out of what _request returned; it has no handler, so what
\* _request raises propagates
FetcherResult(r, ep) ==
    IF r.kind = "raise"
    THEN [kind |-> "raise", exc |-> r.exc, items |-> << >>, cursor |-> None]
    ELSE [kind |-> "return", exc |-> "none",
          items |-> DictGet(r.data, ep, << >>),
          cursor |-> IF ep = "trades" THEN None
                     ELSE DictGet(r.data, "cursor", None)]

FetcherReturn ==
    /\ reqPc = "returned"
    /\ fetched' = FetcherResult(reqResult, endpoint)
    /\ reqPc' = "idle"
    /\ UNCHANGED <<endpoint, attempt, outcomes, waits, reqResult, metrics,
                   calls, reqTrace>>
    /\ UNCHANGED <<logVars, rlVars, ingVars, pageVars, fanVars, detVars>>

InitRequest ==
    /\ reqPc = "idle"
    /\ endpoint = "events"
    /\ attempt = 0
    /\ outcomes = << >>
    /\ reqTrace = << >>
    /\ waits = << >>
    /\ reqResult = [kind |-> "none", exc |-> "none", data |-> EmptyDict]
    /\ fetched = [kind |-> "none", exc |-> "none", items |-> << >>,
                  cursor |-> None]
    /\ metrics = [total_requests |-> 0, successful_requests |-> 0,
                  failed_requests |-> 0]
    /\ calls = 0

CallStep == \E ep \in Endpoints : ReqCall(ep)

AttemptStep == \E o \in Outcomes : ReqAttempt(o)

NextRequest == CallStep \/ AttemptStep \/ ReqBackoff \/ FetcherReturn

----------------------------------------------------------------------------
(* Rate limiter: kalshi_service.py, KalshiAPI._rate_limit_distributed and   *)
(* _rate_limit_local, called by client instances (worker processes) that    *)
(* share one counter store                                                  *)

Clients == 1..NumClients

\* the callers are coroutines of NumInstances client instances (one KalshiAPI
\* object per worker process); callers c and c + NumInstances run on the
\* same instance, as the coroutines of one fan-out do
Instances == 1..NumInstances

InstanceOf(c) == ((c - 1) % NumInstances) + 1

\* kalshi_service.py:273, window = 1.0 second
Window == MaxRps * SleepTicks

\* kalshi_service.py:297, sleep_time = window / max_rps
SleepTime == Window \div MaxRps

\* kalshi_service.py:129, min_request_interval = 1.0 / max_rps
MinRequestInterval == Window \div MaxRps

ExpireSeconds == 5

\* what pipe.execute() does: it answers, or the store fails with one of
\* redis-py's exceptions (all of them subclasses of redis.RedisError)
StoreErrors == {"ConnectionError", "TimeoutError"}

StoreResults == {"ok"} \cup StoreErrors

\* a handler that only expects the store to be unreachable
IsRedisErrorConnectionOnly(e) == e = "ConnectionError"

\* kalshi_service.py:308, except redis.RedisError
IsRedisError(e) == e \in {"ConnectionError", "TimeoutError", "ResponseError"}

\* the key as the store holds it at time t: gone once its expiry has passed
LiveKey(t) == IF t >= storeExpiry THEN {} ELSE store

\* kalshi_service.py:279, zremrangebyscore(key, 0, now - window): the bounds
\* are inclusive
ZRemRangeByScore(zset, lo, hi) == {m \in zset : ~(m.score >= lo /\ m.score <= hi)}

\* kalshi_service.py:285-286, zadd of the member "now:id(self):request_count"
ZAdd(zset, t, c) ==
    zset \cup {[score |-> t, id |-> InstanceOf(c),
                count |-> requestCount[InstanceOf(c)]]}

\* the caller's request is let through to the transport
Release(t, c) == released' = Append(released, [at |-> t, by |-> InstanceOf(c)])

\* kalshi_service.py:312-331, _rate_limit_local up to its sleep: the
\* instance's _last_request_time is read before the sleep and written after
RateLimitLocal(c) ==
    LET inst == InstanceOf(c)
        time_since_last == now - lastRequestTime[inst]
    IN  IF time_since_last < MinRequestInterval
        THEN /\ rlPc' = [rlPc EXCEPT ![c] = "sleep_local"]
             /\ wakeAt' = [wakeAt EXCEPT
                             ![c] = now + (MinRequestInterval - time_since_last)]
             /\ UNCHANGED <<lastRequestTime, requestCount, released>>
        ELSE /\ lastRequestTime' = [lastRequestTime EXCEPT ![inst] = now]
             /\ requestCount' = [requestCount EXCEPT ![inst] = @ + 1]
             /\ Release(now, c)
             /\ UNCHANGED <<rlPc, wakeAt>>

\* kalshi_service.py:260-310, _rate_limit_distributed up to its sleep.  The
\* pipeline is one transaction: trim, count, add, expire.  When the store
\* fails (storeResult is an error) the transaction may or may not have been
\* applied; an error the handler catches sends the call to the local
\* limiter, any other error leaves the limiter as an exception.
RlAcquire(c, storeResult) ==
    /\ rlPc[c] = "idle"
    /\ requestCount[InstanceOf(c)] < MaxRequests
    /\ LET inst == InstanceOf(c)
           trimmed == ZRemRangeByScore(LiveKey(now), 0, now - Window)
           count_before == Cardinality(trimmed)
       IN  IF storeResult = "ok"
           THEN /\ store' = ZAdd(trimmed, now, c)
                /\ storeExpiry' = now + ExpireSeconds * Window
                /\ IF count_before >= MaxRps
                   THEN /\ rlPc' = [rlPc EXCEPT ![c] = "sleep_shared"]
                        /\ wakeAt' = [wakeAt EXCEPT ![c] = now + SleepTime]
                        /\ rateLimited' = [rateLimited EXCEPT ![inst] = @ + 1]
                        /\ UNCHANGED <<requestCount, released>>
                   ELSE /\ requestCount' = [requestCount EXCEPT ![inst] = @ + 1]
                        /\ Release(now, c)
                        /\ UNCHANGED <<rlPc, wakeAt, rateLimited>>
                /\ UNCHANGED lastRequestTime
           ELSE /\ \/ /\ store' = ZAdd(trimmed, now, c)
                      /\ storeExpiry' = now + ExpireSeconds * Window
                   \/ UNCHANGED <<store, storeExpiry>>
                /\ IF IsRedisError(storeResult)
                   THEN RateLimitLocal(c)
                   ELSE /\ rlPc' = [rlPc EXCEPT ![c] = "raised"]
                        /\ UNCHANGED <<wakeAt, lastRequestTime, requestCount,
                                       released>>
                /\ UNCHANGED rateLimited
    /\ UNCHANGED now
    /\ UNCHANGED <<logVars, reqVars, ingVars, pageVars, fanVars, detVars>>

\* kalshi_service.py:333-338, _enforce_rate_limit of an instance whose
\* strategy is local
RlAcquireLocal(c) ==
    /\ rlPc[c] = "idle"
    /\ requestCount[InstanceOf(c)] < MaxRequests
    /\ RateLimitLocal(c)
    /\ UNCHANGED <<now, store, storeExpiry, rateLimited>>
    /\ UNCHANGED <<logVars, reqVars, ingVars, pageVars, fanVars, detVars>>

\* the end of a limiter's asyncio.sleep (at its due time or later), and the
\* rest of the limiter (kalshi_service.py:306, 330-331): the request is let
\* through
RlWake(c) ==
    /\ rlPc[c] \in {"sleep_shared", "sleep_local"}
    /\ now >= wakeAt[c]
    /\ lastRequestTime' = IF rlPc[c] = "sleep_local"
                          THEN [lastRequestTime EXCEPT ![InstanceOf(c)] = now]
                          ELSE lastRequestTime
    /\ requestCount' = [requestCount EXCEPT ![InstanceOf(c)] = @ + 1]
    /\ Release(now, c)
    /\ rlPc' = [rlPc EXCEPT ![c] = "idle"]
    /\ UNCHANGED <<now, store, storeExpiry, wakeAt, rateLimited>>
    /\ UNCHANGED <<logVars, reqVars, ingVars, pageVars, fanVars, detVars>>

RlTick ==
    /\ now < RlMaxTime
    /\ now' = now + 1
    /\ UNCHANGED <<store, storeExpiry, rlPc, wakeAt, lastRequestTime,
                   requestCount, rateLimited, released>>
    /\ UNCHANGED <<logVars, reqVars, ingVars, pageVars, fanVars, detVars>>

\* kalshi_service.py:158-159: _last_request_time starts at 0.0, the epoch,
\* which lies more than one interval before the first call
InitRateLimit ==
    /\ now = 0
    /\ store = {}
    /\ storeExpiry = 0
    /\ rlPc = [c \in Clients |-> "idle"]
    /\ wakeAt = [c \in Clients |-> 0]
    /\ lastRequestTime = [i \in Instances |-> 0 - Window]
    /\ requestCount = [i \in Instances |-> 0]
    /\ rateLimited = [i \in Instances |-> 0]
    /\ released = << >>

\* a caller asks for permission while the shared store answers
AcquireSharedStep == \E c \in Clients : RlAcquire(c, "ok")

\* the coroutines of the first client instance
Coroutines == {c \in Clients : InstanceOf(c) = 1}

\* a coroutine of one instance asks for permission under the shared
\* strategy; the store may fail
AcquireStep == \E c \in Coroutines, r \in StoreResults : RlAcquire(c, r)

\* a coroutine of one instance asks for permission under the local strategy
AcquireLocalStep == \E c \in Coroutines : RlAcquireLocal(c)

WakeStep == \E c \in Clients : RlWake(c)

NextRateShared == AcquireSharedStep \/ WakeStep \/ RlTick

NextRateFallback == AcquireStep \/ WakeStep \/ RlTick

NextRateLocal == AcquireLocalStep \/ WakeStep \/ RlTick

----------------------------------------------------------------------------
(* Ingestion run: tasks/monitor.py, update_market_data.  One run upserts    *)
(* the fetched markets as a batch and then, market by market, fetches the   *)
(* trades and inserts them.                                                 *)

ErrorCeiling == 20

TradeIds == {"t1", "t2"}

Volumes == {1, 2}

\* a fetched market: its ticker, and whether its close_time parses
FetchedMarkets == [ticker : Tickers, close_ok : BOOLEAN]

\* sequences of length at most n over the set S
SeqsUpTo(S, n) == UNION {[1..k -> S] : k \in 0..n}

\* the markets lists a run can fetch: the exchange lists a market once
MarketLists ==
    {ms \in SeqsUpTo(FetchedMarkets, MaxMarkets) :
        \A i, j \in DOMAIN ms : i # j => ms[i].ticker # ms[j].ticker}

\* a well-formed fetched trade record, as far as the store keeps it
TradeRecords == [trade_id : TradeIds, volume : Volumes]

\* the number of malformed records (records whose parsing raises) in a batch
MalformedCounts == {0, 1, MaxMalformed}

\* what get_trades gives for one market: it raises, or it returns a list,
\* here its well-formed records in order and the number of malformed ones
TradeFetches ==
    [kind : {"fetch_error"}, good : {<< >>}, bad : {0}]
    \cup [kind : {"trades"}, good : SeqsUpTo(TradeRecords, MaxBatch),
          bad : MalformedCounts]

\* monitor.py:61-82, the markets whose parsing did not raise
MarketData(markets) ==
    {markets[i].ticker : i \in {j \in DOMAIN markets : markets[j].close_ok}}

\* monitor.py:132-148, the row built from a well-formed record
TradeRow(ticker, rec) ==
    [ticker |-> ticker, trade_id |-> rec.trade_id, volume |-> rec.volume]

StoredIds(table) == {table[i].trade_id : i \in DOMAIN table}

RECURSIVE InsertPlain(_, _, _)
\* an insert without a conflict clause on a table without the unique index
InsertPlain(table, ticker, recs) ==
    IF recs = << >> THEN table
    ELSE InsertPlain(Append(table, TradeRow(ticker, Head(recs))), ticker, Tail(recs))

RECURSIVE InsertOnConflictDoUpdate(_, _, _)
\* an upsert: a conflicting row takes the fetched record's fields
InsertOnConflictDoUpdate(table, ticker, recs) ==
    IF recs = << >> THEN table
    ELSE LET row == TradeRow(ticker, Head(recs))
             hit == {i \in DOMAIN table : table[i].trade_id = row.trade_id}
             next == IF hit = {} THEN Append(table, row)
                     ELSE [i \in DOMAIN table |->
                             IF i \in hit THEN row ELSE table[i]]
         IN  InsertOnConflictDoUpdate(next, ticker, Tail(recs))

RECURSIVE InsertOnConflictDoNothing(_, _, _)
\* monitor.py:154-156, insert(Trade).values(batch).on_conflict_do_nothing on
\* trade_id: a record whose trade_id a row already has is dropped
InsertOnConflictDoNothing(table, ticker, recs) ==
    IF recs = << >> THEN table
    ELSE LET row == TradeRow(ticker, Head(recs))
             next == IF row.trade_id \in StoredIds(table) THEN table
                     ELSE Append(table, row)
         IN  InsertOnConflictDoNothing(next, ticker, Tail(recs))

\* models.py:25, ticker = ForeignKey("markets.ticker"): the store accepts a
\* trade row only when its market row exists
ForeignKeyHolds(ticker, markets) == ticker \in markets

\* whether a batch holds a record whose trade_id is stored with other fields
Differing(table, ticker, recs) ==
    \E k \in DOMAIN recs, i \in DOMAIN table :
        /\ table[i].trade_id = recs[k].trade_id
        /\ table[i] # TradeRow(ticker, recs[k])

IngEvent(op, ticker, rowcount, differing) ==
    [op |-> op, ticker |-> ticker, rowcount |-> rowcount, differing |-> differing]

\* monitor.py:22 and 175, max_retries=3
MaxRetries == 3

\* the statements an overlapping run may execute
MaxStatements == 2

\* what the two market fetches at the start of a run do.  The fan-out
\* (get_all_markets_from_events) raises when its events fetch raises
\* ("events_raised") or a task raises ("fan_out_raised"); otherwise it
\* returns the markets its tasks returned.
\* The fallback get_markets is called only when the fan-out returned no
\* market: it raises, or answers with an empty page or a page of markets.
MarketFetches ==
    [kind : {"events_raised", "fan_out_raised"}, markets : {<< >>},
     fallback : {"none"}]
    \cup [kind : {"fan_out"}, markets : MarketLists \ {<< >>},
          fallback : {"none"}]
    \cup [kind : {"fan_out"}, markets : {<< >>},
          fallback : {"raised", "empty_page", "page"}]

\* kalshi_service.py:573, get_markets returns the pair (markets,
\* next_cursor); monitor.py:50-52 binds the pair itself to `markets`.  The
\* value is given by its length and by whether its members are market
\* dicts.
FallbackValue(page) == [len |-> 2, dicts |-> FALSE]

\* the list the fan-out returned
FanOutValue(markets) == [len |-> Len(markets), dicts |-> TRUE]

\* Python's `not markets` of a list or a tuple
IsEmpty(value) == value.len = 0

\* mutant: the task gives up one failure later
RetriesExhaustedLate(retries) == retries + 1 > MaxRetries + 1

\* Task.retry with max_retries=3 (monitor.py:175): the retry is refused,
\* and the exception raised instead, once request.retries + 1 is over
\* max_retries
RetriesExhausted(retries) == retries + 1 > MaxRetries

\* the end of a run: how it ended, the retries it ran with, whether the
\* session was rolled back, and what its fallback fetch had done
JobEnd(state, retries, rolled_back, fallback) ==
    [state |-> state, retries |-> retries, rolled_back |-> rolled_back,
     fallback |-> fallback]

\* monitor.py:172-177, the handler at the job boundary: the session is
\* rolled back and the task asks to be retried; the run that is due next
\* is the retry, or a fresh run when the retries are exhausted
JobFail(op, fallback) ==
    /\ lastIng' = IngEvent(op, None, 0, FALSE)
    /\ IF RetriesExhausted(request_retries)
       THEN /\ jobEnd' = JobEnd("raised", request_retries, TRUE, fallback)
            /\ request_retries' = 0
       ELSE /\ jobEnd' = JobEnd("retry", request_retries, TRUE, fallback)
            /\ request_retries' = request_retries + 1
    /\ UNCHANGED <<marketRows, runPc, runMarkets, runIdx, error_count>>

\* monitor.py:54-56 and 167-177, the run returns
JobReturn(op, fallback) ==
    /\ lastIng' = IngEvent(op, None, 0, FALSE)
    /\ jobEnd' = JobEnd("returned", request_retries, FALSE, fallback)
    /\ request_retries' = 0

\* monitor.py:58-96, the markets are parsed and upserted in one statement,
\* which is committed.  A member that is not a dict raises AttributeError
\* at m.get (monitor.py:65) and again in the handler's log message
\* (monitor.py:81), so the exception reaches the job boundary.
IngUpsert(value, markets, fallback) ==
    IF ~value.dicts
    THEN JobFail("parse_raised", fallback)
    ELSE /\ marketRows' = marketRows \cup MarketData(markets)
         /\ runMarkets' = markets
         /\ runIdx' = 1
         /\ error_count' = 0
         /\ runPc' = "trades"
         /\ lastIng' = IngEvent("upsert", None, 0, FALSE)
              /\ jobEnd' = JobEnd("running", request_retries, FALSE, fallback)
         /\ UNCHANGED request_retries

\* monitor.py:41-96, the start of a run: the markets are fetched (with the
\* fallback when the fan-out gives none), parsed and upserted
IngStart(fetch) ==
    /\ runPc = "idle"
    /\ IF fetch.kind \in {"events_raised", "fan_out_raised"}
       THEN JobFail(fetch.kind, fetch.fallback)
       ELSE IF ~IsEmpty(FanOutValue(fetch.markets))
       THEN IngUpsert(FanOutValue(fetch.markets), fetch.markets,
                      fetch.fallback)
       ELSE IF fetch.fallback = "raised"
       THEN JobFail("fallback_raised", fetch.fallback)
       ELSE LET page == IF fetch.fallback = "page"
                        THEN <<[ticker |-> "MKT1", close_ok |-> TRUE]>>
                        ELSE << >>
                value == FallbackValue(page)
            IN  IF IsEmpty(value)
                THEN /\ JobReturn("no_markets", fetch.fallback)
                     /\ UNCHANGED <<marketRows, runPc, runMarkets, runIdx,
                                    error_count>>
                ELSE IngUpsert(value, page, fetch.fallback)
    /\ UNCHANGED <<trades, ovlVars>>
    /\ UNCHANGED <<logVars, reqVars, rlVars, pageVars, fanVars, detVars>>

\* monitor.py:160-165, the handler of the per-market try: the error is
\* counted, and the loop ends once the counter is over the ceiling
CountFetchError(count) ==
    /\ error_count' = count + 1
    /\ IF count + 1 > ErrorCeiling
       THEN runPc' = "aborted" /\ UNCHANGED runIdx
       ELSE runIdx' = runIdx + 1 /\ UNCHANGED runPc

\* monitor.py:99-165, one iteration of the per-market loop
IngProcessMarket(fetch) ==
    /\ runPc = "trades"
    /\ runIdx <= Len(runMarkets)
    /\ LET ticker == runMarkets[runIdx].ticker
           parsed == error_count + fetch.bad
       IN  IF fetch.kind = "fetch_error"
           THEN /\ CountFetchError(error_count)
                /\ lastIng' = IngEvent("fetch_error", ticker, 0, FALSE)
                /\ UNCHANGED trades
           ELSE IF fetch.good = << >>
           THEN /\ error_count' = parsed
                /\ runIdx' = runIdx + 1
                /\ lastIng' = IngEvent("no_batch", ticker, 0, FALSE)
                /\ UNCHANGED <<trades, runPc>>
           ELSE IF ForeignKeyHolds(ticker, marketRows)
           THEN /\ trades' = InsertOnConflictDoNothing(trades, ticker, fetch.good)
                /\ error_count' = parsed
                /\ runIdx' = runIdx + 1
                /\ lastIng' = IngEvent("inserted", ticker,
                                       Len(trades') - Len(trades),
                                       Differing(trades, ticker, fetch.good))
                /\ UNCHANGED runPc
           ELSE /\ CountFetchError(parsed)
                /\ lastIng' = IngEvent("rejected", ticker, 0, FALSE)
                /\ UNCHANGED <<trades>>
    /\ UNCHANGED <<marketRows, runMarkets, request_retries, jobEnd, ovlVars>>
    /\ UNCHANGED <<logVars, reqVars, rlVars, pageVars, fanVars, detVars>>

\* monitor.py:167-177, the end of the run, after the loop or its break
IngFinish ==
    /\ \/ runPc = "aborted"
       \/ runPc = "trades" /\ runIdx > Len(runMarkets)
    /\ runPc' = "idle"
    /\ JobReturn("finish", jobEnd.fallback)
    /\ UNCHANGED <<marketRows, trades, runMarkets, runIdx, error_count,
                   ovlVars>>
    /\ UNCHANGED <<logVars, reqVars, rlVars, pageVars, fanVars, detVars>>

InitIngest ==
    /\ marketRows = {}
    /\ trades = << >>
    /\ runPc = "idle"
    /\ runMarkets = << >>
    /\ runIdx = 1
    /\ error_count = 0
    /\ lastIng = IngEvent("none", None, 0, FALSE)
    /\ request_retries = 0
    /\ jobEnd = JobEnd("none", 0, FALSE, "none")

\* the runs whose fan-out returns markets
FannedOut == {f \in MarketFetches : f.kind = "fan_out" /\ f.markets # << >>}

StartStep == \E f \in FannedOut : IngStart(f)

ProcessStep == \E f \in TradeFetches : IngProcessMarket(f)

NextIngest == StartStep \/ ProcessStep \/ IngFinish

\* the job under every outcome of its market fetches, over markets whose
\* trade fetch raises or returns nothing
JobStartStep == \E f \in MarketFetches : IngStart(f)

JobTradeFetches == {f \in TradeFetches : f.good = << >> /\ f.bad = 0}

JobProcessStep == \E f \in JobTradeFetches : IngProcessMarket(f)

NextJob == JobStartStep \/ JobProcessStep \/ IngFinish

----------------------------------------------------------------------------
(* Overlapping runs: two update_market_data tasks at once, each with its    *)
(* own session, inserting trade batches into the one trades table.  The    *)
(* insert is INSERT ... ON CONFLICT (trade_id) DO NOTHING on the unique    *)
(* index of models.py:26; a statement proceeds row by row, its rows are    *)
(* seen by the other session once it commits.                              *)

Runs == {1, 2}

OtherRun(r) == 3 - r

\* the market both runs fetch trades for
OvlTicker == "MKT1"

\* monitor.py:108-151, the trade_batch lists a run builds; an empty one is
\* not inserted (monitor.py:153)
OvlBatches ==
    {b \in SeqsUpTo(TradeRecords, Cardinality(TradeIds)) :
        b # << >> /\ \A i \in DOMAIN b : b[i].volume = 1}

\* a run between statements: its counters, and whether its session is
\* left in a failed transaction
RunState(pc, trades_inserted, errors, failed, stmts) ==
    [pc |-> pc, batch |-> << >>, pos |-> 1, pending |-> << >>,
     rowcount |-> 0, waited |-> FALSE, trades_inserted |-> trades_inserted,
     error_count |-> errors, failed |-> failed, stmts |-> stmts]

\* models.py:26 with monitor.py:154, the conflict test of the insert: a
\* committed row, or a row of the statement itself, has the trade_id
Conflicts(trade_id, table, pending) ==
    trade_id \in StoredIds(table) \cup StoredIds(pending)

\* mutant: the insert does not wait for the other session's rows
WaitsForNever(trade_id, other_pending) == FALSE

\* models.py:26, the unique index: an insert whose trade_id another
\* session has inserted and not yet committed waits for that session
WaitsFor(trade_id, other_pending) == trade_id \in StoredIds(other_pending)

\* monitor.py:84-96, the run's market upsert, committed before the trades
OvlUpsert(r) ==
    /\ overlap[r].pc = "new"
    /\ marketRows' = marketRows \cup {OvlTicker}
    /\ overlap' = [overlap EXCEPT ![r].pc = "idle"]
    /\ UNCHANGED <<trades, runPc, runMarkets, runIdx, error_count, lastIng,
                   request_retries, jobEnd>>
    /\ UNCHANGED <<logVars, reqVars, rlVars, pageVars, fanVars, detVars>>

\* monitor.py:153-156, db.execute(stmt) starts; in a session whose
\* transaction has failed it raises at once (monitor.py:160-162)
OvlExecute(r, batch) ==
    /\ overlap[r].pc = "idle"
    /\ overlap[r].stmts < MaxStatements
    /\ overlap' =
         [overlap EXCEPT ![r] =
            IF @.failed
            THEN [@ EXCEPT !.error_count = @ + 1, !.stmts = @ + 1]
            ELSE [@ EXCEPT !.pc = "exec", !.batch = batch, !.pos = 1,
                           !.pending = << >>, !.rowcount = 0,
                           !.waited = FALSE, !.stmts = @ + 1]]
    /\ UNCHANGED <<marketRows, trades, runPc, runMarkets, runIdx,
                   error_count, lastIng, request_retries, jobEnd>>
    /\ UNCHANGED <<logVars, reqVars, rlVars, pageVars, fanVars, detVars>>

\* the statement's next row: dropped on a conflict, held back while the
\* other session has the trade_id uncommitted, inserted otherwise
OvlRow(r) ==
    /\ overlap[r].pc \in {"exec", "waiting"}
    /\ overlap[r].pos <= Len(overlap[r].batch)
    /\ LET me == overlap[r]
           rec == me.batch[me.pos]
       IN  IF Conflicts(rec.trade_id, trades, me.pending)
           THEN overlap' = [overlap EXCEPT ![r].pc = "exec",
                                           ![r].pos = @ + 1]
           ELSE IF WaitsFor(rec.trade_id, overlap[OtherRun(r)].pending)
           THEN /\ me.pc = "exec"
                /\ overlap' = [overlap EXCEPT ![r].pc = "waiting",
                                              ![r].waited = TRUE]
           ELSE overlap' =
                  [overlap EXCEPT
                     ![r].pc = "exec",
                     ![r].pending = Append(@, TradeRow(OvlTicker, rec)),
                     ![r].rowcount = @ + 1,
                     ![r].pos = @ + 1]
    /\ UNCHANGED <<marketRows, trades, runPc, runMarkets, runIdx,
                   error_count, lastIng, request_retries, jobEnd>>
    /\ UNCHANGED <<logVars, reqVars, rlVars, pageVars, fanVars, detVars>>

\* each session waits for a row of the other: the database ends one
\* statement with an error, undoing its rows; the run counts an error
\* (monitor.py:160-162) and its session stays in the failed transaction
OvlDeadlock(r) ==
    /\ overlap[r].pc = "waiting"
    /\ overlap[OtherRun(r)].pc = "waiting"
    /\ overlap' =
         [overlap EXCEPT ![r] =
            [@ EXCEPT !.pc = "idle", !.pending = << >>, !.rowcount = 0,
                      !.error_count = @ + 1, !.failed = TRUE]]
    /\ UNCHANGED <<marketRows, trades, runPc, runMarkets, runIdx,
                   error_count, lastIng, request_retries, jobEnd>>
    /\ UNCHANGED <<logVars, reqVars, rlVars, pageVars, fanVars, detVars>>

\* monitor.py:157-158, trades_inserted += result.rowcount; db.commit()
OvlCommit(r) ==
    /\ overlap[r].pc = "exec"
    /\ overlap[r].pos > Len(overlap[r].batch)
    /\ trades' = trades \o overlap[r].pending
    /\ overlap' =
         [overlap EXCEPT ![r] =
            [@ EXCEPT !.pc = "idle", !.pending = << >>,
                      !.trades_inserted = @ + overlap[r].rowcount]]
    /\ UNCHANGED <<marketRows, runPc, runMarkets, runIdx, error_count,
                   lastIng, request_retries, jobEnd>>
    /\ UNCHANGED <<logVars, reqVars, rlVars, pageVars, fanVars, detVars>>

InitOverlap == overlap = [r \in Runs |-> RunState("new", 0, 0, FALSE, 0)]

OvlUpsertStep == \E r \in Runs : OvlUpsert(r)

OvlExecuteStep == \E r \in Runs, b \in OvlBatches : OvlExecute(r, b)

OvlRowStep == \E r \in Runs : OvlRow(r)

OvlDeadlockStep == \E r \in Runs : OvlDeadlock(r)

OvlCommitStep == \E r \in Runs : OvlCommit(r)

NextOverlap ==
    \/ OvlUpsertStep
    \/ OvlExecuteStep
    \/ OvlRowStep
    \/ OvlDeadlockStep
    \/ OvlCommitStep

----------------------------------------------------------------------------
(* Cursor pagination: kalshi_service.py, KalshiAPI.get_all_events and       *)
(* get_all_markets (the same loop over get_events / get_markets)            *)

\* a page the exchange serves: its number of items, and whether its
\* response carries a cursor to the next page
Pages == [n : 0..MaxPageItems, more : BOOLEAN]

Servers == SeqsUpTo(Pages, MaxPages)

\* an absent max_events / max_markets (None)
NoMax == 0 - 1

\* an absent cursor (None): the cursors of the model are page numbers
NoCursor == 0

\* max_events / max_markets: absent, or an item count
MaxItemCounts == {NoMax} \cup 0..MaxItemCap

\* the j-th item of page k
Item(k, j) == k * (MaxPageItems + 1) + j

\* the cursor of page k, when its response carries one: the next page,
\* or the page the exchange names
NextCursor(server, k) ==
    IF "next" \in DOMAIN server[k] THEN server[k].next ELSE k + 1

\* kalshi_service.py:482-486, the (items, cursor) a page call returns for
\* the cursor k; past the last page the exchange answers with an empty page
GetPage(server, k) ==
    IF k \in DOMAIN server
    THEN [items |-> [j \in 1..server[k].n |-> Item(k, j)],
          cursor |-> IF server[k].more THEN NextCursor(server, k)
                     ELSE NoCursor]
    ELSE [items |-> << >>, cursor |-> NoCursor]

\* pages whose response always carries a cursor, to any page of the
\* exchange, the page itself or an earlier one included
CyclicPages == [n : {0, 1, MaxPageItems}, more : {TRUE}, next : 1..MaxPages]

CyclicServers == [1..MaxPages -> CyclicPages]

\* Python's truth value of max_events in `if max_events and ...`
Truthy(max) == max # NoMax /\ max # 0

\* mutant: the loop ends only once it holds more items than the maximum
CapReachedStrict(max, n) == Truthy(max) /\ n > max

\* kalshi_service.py:527, `if max_events and len(all_events) >= max_events`
CapReached(max, n) == Truthy(max) /\ n >= max

\* kalshi_service.py:505-507, the call starts with no items and no cursor
PageStart(server, max) ==
    /\ pgPc \in {"idle", "returned", "raised"}
    /\ pgServer' = server
    /\ pgMax' = max
    /\ pgCursor' = 1
    /\ all_items' = << >>
    /\ page_num' = 0
    /\ pgPc' = "loop"
    /\ UNCHANGED <<logVars, reqVars, rlVars, ingVars, fanVars, detVars>>

\* kalshi_service.py:509-535, one iteration of the while loop
PageFetch ==
    /\ pgPc = "loop"
    /\ page_num' = page_num + 1
    /\ LET page == GetPage(pgServer, pgCursor)
           extended == all_items \o page.items
       IN  IF page.items = << >>
           THEN /\ pgPc' = "returned"
                /\ UNCHANGED <<all_items, pgCursor>>
           ELSE IF CapReached(pgMax, Len(extended))
           THEN /\ all_items' = SubSeq(extended, 1, pgMax)
                /\ pgPc' = "returned"
                /\ UNCHANGED pgCursor
           ELSE IF page.cursor = NoCursor
           THEN /\ all_items' = extended
                /\ pgPc' = "returned"
                /\ UNCHANGED pgCursor
           ELSE /\ all_items' = extended
                /\ pgCursor' = page.cursor
                /\ UNCHANGED pgPc
    /\ UNCHANGED <<pgServer, pgMax>>
    /\ UNCHANGED <<logVars, reqVars, rlVars, ingVars, fanVars, detVars>>

\* kalshi_service.py:511-515, the page call raises (the request failed after
\* its retries): the exception leaves the loop and the call
PageFetchRaises ==
    /\ pgPc = "loop"
    /\ pgPc' = "raised"
    /\ page_num' = page_num + 1
    /\ UNCHANGED <<pgServer, pgMax, pgCursor, all_items>>
    /\ UNCHANGED <<logVars, reqVars, rlVars, ingVars, fanVars, detVars>>

InitPaging ==
    /\ pgPc = "idle"
    /\ pgServer = << >>
    /\ pgMax = NoMax
    /\ pgCursor = 1
    /\ all_items = << >>
    /\ page_num = 0

PageStartStep == \E sv \in Servers, mx \in MaxItemCounts : PageStart(sv, mx)

NextPaging == PageStartStep \/ PageFetch \/ PageFetchRaises

\* calls with a positive maximum against an exchange whose cursors never
\* end
PageStartCappedStep ==
    \E sv \in CyclicServers, mx \in 1..MaxItemCap : PageStart(sv, mx)

NextPagingCapped == PageStartCappedStep \/ PageFetch \/ PageFetchRaises

----------------------------------------------------------------------------
(* Fan-out: kalshi_service.py, KalshiAPI.get_all_markets_from_events.  One  *)
(* task per event runs fetch_markets_with_semaphore; gather collects them.  *)

\* an event record: whether it carries the key "event_ticker"
EventRecords == [has_ticker : BOOLEAN]

EventLists == SeqsUpTo(EventRecords, NumEvents)

\* what get_markets_for_event does for an event: it returns markets, returns
\* none, swallows a 429 (kalshi_service.py:647-654) or raises
FetchOutcomes == {"markets", "no_markets", "rate_limited", "error"}

\* the markets the exchange lists for the i-th event
MarketsOf(i) == <<i>>

\* the number of tasks inside `async with semaphore`
InFlight == Cardinality({i \in DOMAIN fanPc : fanPc[i] = "fetching"})

RECURSIVE Flatten(_)
\* kalshi_service.py:736-737, all_markets.extend(market_list) per result
Flatten(lists) ==
    IF lists = << >> THEN << >> ELSE Head(lists) \o Flatten(Tail(lists))

\* kalshi_service.py:676-733, the call up to gather: no events, no tasks
FanStart(events) ==
    /\ fanCall \in {"idle", "returned", "raised"}
    /\ fanEvents' = events
    /\ fanResults' = [i \in DOMAIN events |-> << >>]
    /\ fanReturn' = << >>
    /\ IF events = << >>
       THEN fanCall' = "returned" /\ fanPc' = << >>
       ELSE fanCall' = "gather" /\ fanPc' = [i \in DOMAIN events |-> "waiting"]
    /\ UNCHANGED <<logVars, reqVars, rlVars, ingVars, pageVars, detVars>>

\* kalshi_service.py:703-709 and 723-727, a task takes a permit and runs up
\* to its first await.  event["event_ticker"] of a record without the key
\* raises KeyError inside the try; the handler's log message evaluates
\* event['event_ticker'] again, so the KeyError leaves the handler and the
\* task, and the permit is given back on the way out.
FanEnter(i) ==
    /\ fanCall = "gather"
    /\ fanPc[i] = "waiting"
    /\ InFlight < MaxConcurrent
    /\ fanPc' = [fanPc EXCEPT
                   ![i] = IF fanEvents[i].has_ticker THEN "fetching" ELSE "raised"]
    /\ UNCHANGED <<fanCall, fanEvents, fanResults, fanReturn>>
    /\ UNCHANGED <<logVars, reqVars, rlVars, ingVars, pageVars, detVars>>

\* kalshi_service.py:709-727, the task's fetch ends: its markets are
\* returned, or an exception is logged and [] returned; the permit is freed
FanComplete(i, outcome) ==
    /\ fanCall = "gather"
    /\ fanPc[i] = "fetching"
    /\ fanPc' = [fanPc EXCEPT ![i] = "done"]
    /\ fanResults' = [fanResults EXCEPT
                        ![i] = IF outcome = "markets" THEN MarketsOf(i) ELSE << >>]
    /\ UNCHANGED <<fanCall, fanEvents, fanReturn>>
    /\ UNCHANGED <<logVars, reqVars, rlVars, ingVars, pageVars, detVars>>

\* kalshi_service.py:731-740, every task has returned: the results are
\* flattened in event order
FanGatherReturn ==
    /\ fanCall = "gather"
    /\ \A i \in DOMAIN fanPc : fanPc[i] = "done"
    /\ fanReturn' = Flatten(fanResults)
    /\ fanCall' = "returned"
    /\ UNCHANGED <<fanEvents, fanPc, fanResults>>
    /\ UNCHANGED <<logVars, reqVars, rlVars, ingVars, pageVars, detVars>>

\* kalshi_service.py:731-733, a task has raised: gather hands the exception
\* to the call, which raises it; the tasks still pending are cancelled when
\* the caller's asyncio.run (monitor.py:41-46) closes its loop
FanGatherRaise ==
    /\ fanCall = "gather"
    /\ \E i \in DOMAIN fanPc : fanPc[i] = "raised"
    /\ fanCall' = "raised"
    /\ fanPc' = [i \in DOMAIN fanPc |->
                   IF fanPc[i] \in {"waiting", "fetching"} THEN "cancelled"
                   ELSE fanPc[i]]
    /\ UNCHANGED <<fanEvents, fanResults, fanReturn>>
    /\ UNCHANGED <<logVars, reqVars, rlVars, ingVars, pageVars, detVars>>

InitFanOut ==
    /\ fanCall = "idle"
    /\ fanEvents = << >>
    /\ fanPc = << >>
    /\ fanResults = << >>
    /\ fanReturn = << >>

FanStartStep == \E evs \in EventLists : FanStart(evs)

FanEnterStep == \E i \in DOMAIN fanPc : FanEnter(i)

FanCompleteStep == \E i \in DOMAIN fanPc, o \in FetchOutcomes : FanComplete(i, o)

NextFanOut ==
    FanStartStep \/ FanEnterStep \/ FanCompleteStep \/ FanGatherReturn
    \/ FanGatherRaise

----------------------------------------------------------------------------
(* Trade normalization: monitor.py, update_market_data, the body of the    *)
(* per-trade try (lines 112-148), and the one-off collector                *)
(* fix_trade_parsing.py (lines 44-81).  A fetched record is a JSON object  *)
(* whose keys may be missing: a field is << >> when the key is absent (or  *)
(* null) and <<v>> when it carries v.  Numbers are in tenths, so that       *)
(* int() has a fraction to drop: 550 is 55.0 and 5 is 0.5.                 *)

Opt(S) == {<< >>} \cup {<<v>> : v \in S}

\* what the exchange may send: each field has values of its own, so that a
\* stored value tells which field supplied it
RawTrades ==
    [trade_id     : {<<"t1">>},
     yes_price    : Opt({0, 1500}),
     price        : Opt({450}),
     count        : Opt({0 - 50, 0, 5, 70}),
     volume       : Opt({30}),
     size         : Opt({40}),
     taker_side   : Opt({"", "yes"}),
     side         : Opt({"no"}),
     created_time : Opt({"iso"})]

\* Python truthiness of a fetched value: None is falsy, and so is the zero
\* of the value's type (0 of a number, "" of a string)
Falsy(f, zero) == f = << >> \/ f[1] = zero

\* a or b or ... or default over fetched fields: the first truthy one
RECURSIVE PyOr(_, _, _)
PyOr(fields, default, zero) ==
    IF fields = << >> THEN default
    ELSE IF Falsy(Head(fields), zero) THEN PyOr(Tail(fields), default, zero)
    ELSE Head(fields)[1]

\* d.get(k1, d.get(k2, ... default)): the first key present
RECURSIVE PyGet(_, _)
PyGet(fields, default) ==
    IF fields = << >> THEN default
    ELSE IF Head(fields) = << >> THEN PyGet(Tail(fields), default)
    ELSE Head(fields)[1]

\* int(x) of a number in tenths: the fraction is dropped, towards zero
PyInt(x) == IF x >= 0 THEN x \div 10 ELSE 0 - ((0 - x) \div 10)

\* float(x) of a number in tenths keeps the value, still in tenths
PyFloat(x) == x

\* str(x): the text of a present id, "None" of an absent one
PyStr(f) == IF f = << >> THEN "None" ELSE f[1]

\* monitor.py:113-130, the timestamp: an ISO string parses, any other string
\* makes fromisoformat raise, and an absent time makes the magnitude test
\* raise (None > 9_999_999_999)
TimestampRaises(raw) == raw.created_time # <<"iso">>

\* monitor.py:132-148, the row appended to the batch (price in tenths; the
\* default volume 1 is 10 tenths before int())
ParseTrade(ticker, raw) ==
    [ticker    |-> ticker,
     trade_id  |-> PyStr(raw.trade_id),
     price     |-> PyFloat(PyOr(<<raw.yes_price, raw.price>>, 0, 0)),
     volume    |-> PyInt(PyOr(<<raw.count>>, 10, 0)),
     side      |-> PyOr(<<raw.taker_side, raw.side>>, "unknown", ""),
     timestamp |-> raw.created_time[1]]

\* fix_trade_parsing.py:46-59, the collector's timestamp: only an ISO string
\* that does not parse raises, an absent time falls back to now
FixTimestampRaises(raw) == raw.created_time = <<"junk">>

\* fix_trade_parsing.py:61-81, the row the collector merges
FixParseTrade(ticker, raw) ==
    [ticker    |-> ticker,
     trade_id  |-> PyGet(<<raw.trade_id>>, "generated"),
     price     |-> PyFloat(PyGet(<<raw.yes_price, raw.price>>, 0)),
     volume    |-> PyInt(PyGet(<<raw.count, raw.volume, raw.size>>, 10)),
     side      |-> PyGet(<<raw.taker_side, raw.side>>, "unknown"),
     timestamp |-> PyGet(<<raw.created_time>>, "now")]

\* monitor.py:111-151, one record of a fetched batch: a row, or a counted
\* parse error and no row
Normalize(ticker, raw) ==
    /\ norm' = [by  |-> "update_market_data",
                raw |-> raw,
                row |-> IF TimestampRaises(raw) THEN << >>
                        ELSE <<ParseTrade(ticker, raw)>>]
    /\ UNCHANGED <<baselines, batches, detOut, profiles>>
    /\ UNCHANGED <<logVars, reqVars, rlVars, ingVars, pageVars, fanVars>>

\* fix_trade_parsing.py:43-85, one record of the collector's loop
FixNormalize(ticker, raw) ==
    /\ norm' = [by  |-> "collect_political_trades_fixed",
                raw |-> raw,
                row |-> IF FixTimestampRaises(raw) THEN << >>
                        ELSE <<FixParseTrade(ticker, raw)>>]
    /\ UNCHANGED <<baselines, batches, detOut, profiles>>
    /\ UNCHANGED <<logVars, reqVars, rlVars, ingVars, pageVars, fanVars>>

InitNormalize == norm = [by |-> "none", raw |-> << >>, row |-> << >>]

NormalizeStep == \E raw \in RawTrades : Normalize("MKT1", raw)

FixNormalizeStep == \E raw \in RawTrades : FixNormalize("MKT1", raw)

NextNormalize == NormalizeStep \/ FixNormalizeStep

----------------------------------------------------------------------------
(* The detector: services/detector.py, AnomalyDetector, and the detection  *)
(* job that drives it, monitor.py, run_anomaly_detection.  Scores, ratios  *)
(* and statistics are in thousandths (3.0 is 3000), prices in cents, trade *)
(* values in dollars, times in minutes; the detector reads the logger's    *)
(* clock.                                                                  *)

MinTrades == 10
VpinWindowTrades == 50
VolumeZscoreThreshold == 3000
WhaleThresholdUsd == 3000
WindowDays == 30
SuspiciousCorr == 700
NoCloseDays == 999

\* datetime.now(timezone.utc), in minutes
NowMinutes == (clock * 60) \div HourTicks

Abs(x) == IF x >= 0 THEN x ELSE 0 - x

\* the integer square root, by bisection between lo and hi (hi * hi fits)
RECURSIVE ISqrtBetween(_, _, _)
ISqrtBetween(n, lo, hi) ==
    IF lo >= hi THEN lo
    ELSE LET mid == (lo + hi + 1) \div 2
         IN  IF mid * mid <= n THEN ISqrtBetween(n, mid, hi)
             ELSE ISqrtBetween(n, lo, mid - 1)

ISqrt(n) == ISqrtBetween(n, 0, Min(n, 46340))

\* 1000 * sqrt(a), as precisely as 31 bits allow
SqrtMilli(a) ==
    IF a <= 2000 THEN ISqrt(a * 1000000)
    ELSE IF a <= 200000 THEN ISqrt(a * 10000) * 10
    ELSE ISqrt(a) * 1000

\* sqrt(a * b): from the product when it fits in 31 bits, else from the
\* two roots, the smaller factor's in hundredths when that fits
SqrtProd(a, b) ==
    IF a = 0 \/ b <= 2147483647 \div a THEN ISqrt(a * b)
    ELSE IF Min(a, b) <= 200000
    THEN (ISqrt(Min(a, b) * 10000) * ISqrt(Max(a, b))) \div 100
    ELSE ISqrt(a) * ISqrt(b)

\* a / b in thousandths, rounded down (b > 0)
Ratio(a, b) ==
    IF b < 2000000 THEN (a \div b) * 1000 + ((a % b) * 1000) \div b
    ELSE a \div (b \div 1000)

\* sum of the first k numbers of a list
RECURSIVE SumTo(_, _)
SumTo(xs, k) == IF k = 0 THEN 0 ELSE xs[k] + SumTo(xs, k - 1)

Sum(xs) == SumTo(xs, Len(xs))

\* n * sum(x^2) - sum(x)^2: n^2 times the population variance of a list
VarianceN2(xs) ==
    Len(xs) * Sum([i \in DOMAIN xs |-> xs[i] * xs[i]]) - Sum(xs) * Sum(xs)

\* float(np.mean(xs)), in thousandths
Mean(xs) == Ratio(Sum(xs), Len(xs))

\* float(np.std(xs) or 0.0): the population standard deviation, thousandths
Std(xs) == SqrtMilli(VarianceN2(xs)) \div Len(xs)

\* [t.volume for t in trades] and [t.price for t in trades]
VolumesOf(rows) == [i \in DOMAIN rows |-> rows[i].volume]
PricesOf(rows) == [i \in DOMAIN rows |-> rows[i].price]

\* ---- the stored trades ---------------------------------------------------
\* Batches of equal trades that ingestion has committed: n trades of one
\* volume, price and side, the first of them stored `age` minutes ago.  The
\* ages fall inside the last hour, the last day, the last 30 days and
\* before them.
TradeBlocks ==
    {[n |-> MinTrades - 1, volume |-> 1, price |-> 40, side |-> "yes", age |-> 0],
     [n |-> MinTrades, volume |-> 1, price |-> 40, side |-> "no", age |-> 0],
     [n |-> MinTrades, volume |-> 3, price |-> 60, side |-> "no", age |-> 6000],
     [n |-> 40, volume |-> 1, price |-> 60, side |-> "yes", age |-> 0],
     [n |-> 1, volume |-> 3000, price |-> 100, side |-> "yes", age |-> 0],
     [n |-> 1, volume |-> 100, price |-> 80, side |-> "unknown", age |-> 120],
     [n |-> 5, volume |-> 2, price |-> 50, side |-> "no", age |-> 50000]}

\* the rows of a batch: ids and timestamps continue from the rows already
\* stored, so no two rows share either
BlockRows(ticker, block, base) ==
    [i \in 1..block.n |->
        [ticker |-> ticker, trade_id |-> base + i, price |-> block.price,
         volume |-> block.volume, side |-> block.side,
         timestamp |-> 0 - block.age - (base + i),
         trader_id |-> IF "trader" \in DOMAIN block THEN block.trader
                       ELSE << >>]]

\* monitor.py:153-158, a batch of a market's trades committed by ingestion
StoreTrades(ticker, block) ==
    /\ Len(batches) < MaxBlocks
    /\ trades' = trades \o BlockRows(ticker, block, Len(trades))
    /\ batches' = Append(batches, block)
    /\ detOut' = [fn |-> "insert_trades"]
    /\ UNCHANGED <<baselines, norm, profiles>>
    /\ UNCHANGED <<marketRows, runPc, runMarkets, runIdx, error_count, lastIng>>
    /\ UNCHANGED <<jobVars, ovlVars>>
    /\ UNCHANGED <<logVars, reqVars, rlVars, pageVars, fanVars>>

\* filter(Trade.ticker == ticker, Trade.timestamp >= cutoff).all()
TradesSince(table, ticker, cutoff) ==
    SelectSeq(table, LAMBDA r : r.ticker = ticker /\ r.timestamp >= cutoff)

\* ---- calculate_baseline --------------------------------------------------
\* mutant: five trades are enough for a baseline
BaselineTooFewFive(n) == n < 5

\* detector.py:54, too few trades for a baseline
BaselineTooFew(n) == n < MinTrades

\* detector.py:57-68, the statistics of the sample
BaselineStats(ticker, rows, at) ==
    [ticker              |-> ticker,
     avg_volume          |-> Mean(VolumesOf(rows)),
     std_volume          |-> Std(VolumesOf(rows)),
     avg_price           |-> Mean(PricesOf(rows)),
     std_price           |-> Std(PricesOf(rows)),
     avg_trades_per_hour |-> Ratio(Len(rows), WindowDays * 24),
     last_updated        |-> at]

\* query(Baseline).filter_by(ticker=ticker).first(): no ORDER BY, so any of
\* the ticker's rows may be the one returned; 0 stands for None
FirstBaseline(table, ticker) ==
    IF \E i \in DOMAIN table : table[i].ticker = ticker
    THEN {i \in DOMAIN table : table[i].ticker = ticker}
    ELSE {0}

\* mutant: the baseline is always added as a new row
InsertBaseline(table, i, stats) == Append(table, stats)

\* detector.py:79-96, the upsert: the row found is overwritten in place,
\* a new row is added when none was found
UpsertBaseline(table, i, stats) ==
    IF i # 0 THEN [table EXCEPT ![i] = stats] ELSE Append(table, stats)

\* detector.py:45-108: the table after the call and what the call returns
\* (<< >> for None), given the row i its query found
BaselineOutcome(table, ticker, i, at) ==
    LET rows == TradesSince(trades, ticker, at - WindowDays * 1440)
    IN  IF BaselineTooFew(Len(rows))
        THEN [table |-> table, ret |-> << >>]
        ELSE LET stats == BaselineStats(ticker, rows, at)
             IN  [table |-> UpsertBaseline(table, i, stats), ret |-> <<stats>>]

CalculateBaseline(ticker) ==
    \E i \in FirstBaseline(baselines, ticker) :
        LET out == BaselineOutcome(baselines, ticker, i, NowMinutes)
        IN  /\ baselines' = out.table
            /\ detOut' = [fn |-> "calculate_baseline", ticker |-> ticker,
                          ret |-> out.ret]
    /\ UNCHANGED <<batches, norm, profiles>>
    /\ UNCHANGED <<logVars, reqVars, rlVars, ingVars, pageVars, fanVars>>

\* ---- detect_volume_anomaly ------------------------------------------------
\* mutant: only a missing row ends the call early
NoUsableBaselineRowOnly(table, i) == i = 0

\* detector.py:121, `not baseline or not baseline.std_volume`
NoUsableBaseline(table, i) == i = 0 \/ table[i].std_volume = 0

\* detector.py:114-126, given the row i its query found.  A float division
\* by zero raises ZeroDivisionError.
VolumeAnomaly(table, i, total_volume) ==
    IF NoUsableBaseline(table, i)
    THEN [is_anomaly |-> FALSE, zscore |-> 0, raised |-> "no"]
    ELSE IF table[i].std_volume = 0
    THEN [is_anomaly |-> FALSE, zscore |-> 0, raised |-> "ZeroDivisionError"]
    ELSE LET zscore == Ratio(total_volume * 1000 - table[i].avg_volume,
                             table[i].std_volume)
         IN  [is_anomaly |-> zscore >= VolumeZscoreThreshold,
              zscore |-> zscore, raised |-> "no"]

DetectVolumeAnomaly(ticker, total_volume) ==
    /\ \E i \in FirstBaseline(baselines, ticker) :
        detOut' = [fn |-> "detect_volume_anomaly", ticker |-> ticker,
                   total_volume |-> total_volume,
                   ret |-> VolumeAnomaly(baselines, i, total_volume)]
    /\ UNCHANGED <<baselines, batches, norm, profiles>>
    /\ UNCHANGED <<logVars, reqVars, rlVars, ingVars, pageVars, fanVars>>

\* ---- calculate_vpin --------------------------------------------------------
\* detector.py:134, `window_trades or int(config["vpin_window_trades"])`
VpinWindow(window_trades) == PyOr(<<window_trades>>, VpinWindowTrades, 0)

\* mutant: the oldest rows instead of the newest
LeastRecent(rows, window) ==
    SelectSeq(rows, LAMBDA r :
        Cardinality({j \in DOMAIN rows : rows[j].timestamp < r.timestamp})
            < window)

\* detector.py:139-140, order_by(timestamp.desc()).limit(window): the rows
\* with fewer than `window` rows after them (timestamps are distinct)
MostRecent(rows, window) ==
    SelectSeq(rows, LAMBDA r :
        Cardinality({j \in DOMAIN rows : rows[j].timestamp > r.timestamp})
            < window)

\* mutant: five trades are enough for a VPIN
VpinTooFewFive(n) == n < 5

\* detector.py:143, too few trades for a VPIN
VpinTooFew(n) == n < MinTrades

\* detector.py:146-147, the volume traded on one side
SideVolume(rows, side) ==
    Sum([i \in DOMAIN rows |->
            IF rows[i].side = side THEN rows[i].volume ELSE 0])

\* detector.py:132-155
Vpin(table, ticker, window_trades) ==
    LET rows == MostRecent(SelectSeq(table, LAMBDA r : r.ticker = ticker),
                           VpinWindow(window_trades))
        buy_volume   == SideVolume(rows, "yes")
        sell_volume  == SideVolume(rows, "no")
        total_volume == buy_volume + sell_volume
    IN  IF VpinTooFew(Len(rows)) THEN 0
        ELSE IF total_volume = 0 THEN 0
        ELSE Ratio(Abs(buy_volume - sell_volume), total_volume)

CalculateVpin(ticker, window_trades) ==
    /\ detOut' = [fn |-> "calculate_vpin", ticker |-> ticker,
                  window_trades |-> window_trades,
                  ret |-> Vpin(trades, ticker, window_trades)]
    /\ UNCHANGED <<baselines, batches, norm, profiles>>
    /\ UNCHANGED <<logVars, reqVars, rlVars, ingVars, pageVars, fanVars>>

\* ---- detect_whale_trades ---------------------------------------------------
\* detector.py:172, `threshold_usd or config.get("whale_threshold_usd", 3000.0)`
WhaleThreshold(threshold_usd) == PyOr(<<threshold_usd>>, WhaleThresholdUsd, 0)

\* detector.py:184-185, volume * price / 100.0 >= threshold, in cents
IsWhale(r, threshold) == r.volume * r.price >= threshold * 100

\* detector.py:186-196, the entry returned for a whale (value in cents)
WhaleEntry(r) ==
    [trade_id |-> r.trade_id, side |-> r.side, volume |-> r.volume,
     price |-> r.price, value_usd |-> r.volume * r.price,
     timestamp |-> r.timestamp]

RECURSIVE MapWhales(_)
MapWhales(rows) ==
    IF rows = << >> THEN << >>
    ELSE <<WhaleEntry(Head(rows))>> \o MapWhales(Tail(rows))

\* detector.py:161-198
WhaleTrades(table, ticker, threshold_usd, lookback_hours, at) ==
    MapWhales(SelectSeq(TradesSince(table, ticker, at - lookback_hours * 60),
                        LAMBDA r : IsWhale(r, WhaleThreshold(threshold_usd))))

DetectWhaleTrades(ticker, threshold_usd) ==
    /\ detOut' = [fn |-> "detect_whale_trades", ticker |-> ticker,
                  threshold_usd |-> threshold_usd,
                  ret |-> WhaleTrades(trades, ticker, threshold_usd, 24,
                                      NowMinutes)]
    /\ UNCHANGED <<baselines, batches, norm, profiles>>
    /\ UNCHANGED <<logVars, reqVars, rlVars, ingVars, pageVars, fanVars>>

\* ---- detect_price_volume_correlation ---------------------------------------
\* detector.py:221, too few trades for a correlation
CorrTooFew(n) == n < MinTrades

\* detector.py:227, a constant price or volume series (the stored prices
\* and volumes are whole numbers, so a constant series has std exactly 0)
ZeroVariance(rows) ==
    VarianceN2(PricesOf(rows)) = 0 \/ VarianceN2(VolumesOf(rows)) = 0

\* detector.py:230, np.corrcoef(prices, volumes)[0, 1], in thousandths
Pearson(rows) ==
    LET n   == Len(rows)
        cov == n * Sum([i \in DOMAIN rows |-> rows[i].price * rows[i].volume])
                 - Sum(PricesOf(rows)) * Sum(VolumesOf(rows))
    IN  Ratio(cov, SqrtProd(VarianceN2(PricesOf(rows)),
                            VarianceN2(VolumesOf(rows))))

\* detector.py:204-232 (the time order of the rows does not change the
\* coefficient)
PriceVolumeCorrelation(table, ticker, lookback_hours, at) ==
    LET rows == TradesSince(table, ticker, at - lookback_hours * 60)
    IN  IF CorrTooFew(Len(rows)) THEN [suspicious |-> FALSE, corr |-> 0]
        ELSE IF ZeroVariance(rows) THEN [suspicious |-> FALSE, corr |-> 0]
        ELSE [suspicious |-> Abs(Pearson(rows)) >= SuspiciousCorr,
              corr |-> Pearson(rows)]

DetectPriceVolumeCorrelation(ticker) ==
    /\ detOut' = [fn |-> "detect_price_volume_correlation", ticker |-> ticker,
                  ret |-> PriceVolumeCorrelation(trades, ticker, 1, NowMinutes)]
    /\ UNCHANGED <<baselines, batches, norm, profiles>>
    /\ UNCHANGED <<logVars, reqVars, rlVars, ingVars, pageVars, fanVars>>

\* ---- calculate_anomaly_score -----------------------------------------------
\* detector.py:258
VolumeScore(volume_zscore) == Min(Max(volume_zscore - 2000, 0), 5000)

\* detector.py:261
VpinScore(vpin) == Min(vpin * 3, 3000)

\* mutant: the day bounds compared with < instead of <=
UrgencyScoreStrict(days_to_close) ==
    IF days_to_close < 0 THEN 4000
    ELSE IF days_to_close < 1 THEN 3500
    ELSE IF days_to_close < 3 THEN 3000
    ELSE IF days_to_close < 7 THEN 2000
    ELSE IF days_to_close < 14 THEN 1000
    ELSE 0

\* detector.py:264-275
UrgencyScore(days_to_close) ==
    IF days_to_close <= 0 THEN 4000
    ELSE IF days_to_close <= 1 THEN 3500
    ELSE IF days_to_close <= 3 THEN 3000
    ELSE IF days_to_close <= 7 THEN 2000
    ELSE IF days_to_close <= 14 THEN 1000
    ELSE 0

\* detector.py:278
CorrScore(price_volume_corr) == Min(Abs(price_volume_corr) * 3, 3000)

\* detector.py:281
WhaleScore(whale_count) == Min(whale_count * 1500, 3000)

\* detector.py:238-284
AnomalyScore(volume_zscore, price_car, days_to_close, vpin, price_volume_corr, whale_count) ==
    VolumeScore(volume_zscore) + VpinScore(vpin) + UrgencyScore(days_to_close)
        + CorrScore(price_volume_corr) + WhaleScore(whale_count)

\* a call of calculate_anomaly_score; the history keeps its five locals
CalculateAnomalyScore(volume_zscore, price_car, days_to_close, vpin, price_volume_corr, whale_count) ==
    /\ detOut' = [fn |-> "calculate_anomaly_score",
                  volume_zscore |-> volume_zscore,
                  days_to_close |-> days_to_close, vpin |-> vpin,
                  price_volume_corr |-> price_volume_corr,
                  whale_count |-> whale_count,
                  volume_score |-> VolumeScore(volume_zscore),
                  vpin_score |-> VpinScore(vpin),
                  urgency_score |-> UrgencyScore(days_to_close),
                  corr_score |-> CorrScore(price_volume_corr),
                  whale_score |-> WhaleScore(whale_count),
                  ret |-> AnomalyScore(volume_zscore, price_car, days_to_close,
                                       vpin, price_volume_corr, whale_count)]
    /\ UNCHANGED <<baselines, batches, norm, profiles>>
    /\ UNCHANGED <<logVars, reqVars, rlVars, ingVars, pageVars, fanVars>>

\* ---- run_anomaly_detection -------------------------------------------------
\* close dates of the markets, in minutes: past, today, and 1, 2, 3, 4, 7,
\* 8, 14 and 15 whole days ahead
CloseDates ==
    {0 - 1, 100, 1500, 2900, 4400, 5800, 10100, 11600, 20200, 21700}

\* monitor.py:193, an active market row the job iterates over: the market
\* whose trades are stored, under every close date
ActiveMarkets == [ticker : {"MKT1"}, close_date : Opt(CloseDates)]

\* monitor.py:230-234, (close_date - utcnow()).days, or 999 without a date
DaysToClose(market, at) ==
    IF market.close_date = << >> THEN NoCloseDays
    ELSE (market.close_date[1] - at) \div 1440

\* an iteration that ends at one of the loop's `continue`s, after
\* calculate_baseline has left the baselines table as `table`
SkipMarket(market, stage, table) ==
    /\ baselines' = table
    /\ detOut' = [fn |-> "run_anomaly_detection", ticker |-> market.ticker,
                  close_date |-> market.close_date, stage |-> stage]
    /\ UNCHANGED <<batches, norm, profiles>>
    /\ UNCHANGED <<logVars, reqVars, rlVars, ingVars, pageVars, fanVars>>

\* monitor.py:195-270, one iteration of the loop over the active markets
DetectMarket(market) ==
    LET ticker == market.ticker
        at     == NowMinutes
    IN  \E i \in FirstBaseline(baselines, ticker) :
        LET out          == BaselineOutcome(baselines, ticker, i, at)
            recent       == TradesSince(trades, ticker, at - 60)
            total_volume == Sum(VolumesOf(recent))
        IN  IF out.ret = << >> THEN SkipMarket(market, "no_baseline", out.table)
            ELSE IF recent = << >>
            THEN SkipMarket(market, "no_recent_trades", out.table)
            ELSE \E j \in FirstBaseline(out.table, ticker) :
                 LET va == VolumeAnomaly(out.table, j, total_volume)
                 IN  IF va.raised # "no"
                     THEN SkipMarket(market, "error", out.table)
                     ELSE IF ~va.is_anomaly
                     THEN SkipMarket(market, "not_anomalous", out.table)
                     ELSE
                     LET vpin   == Vpin(trades, ticker, << >>)
                         whales == WhaleTrades(trades, ticker, << >>, 24, at)
                         corr   == PriceVolumeCorrelation(trades, ticker, 1, at)
                         days   == DaysToClose(market, at)
                         score  == AnomalyScore(va.zscore, 0, days, vpin,
                                                corr.corr, Len(whales))
                         details == [zscore |-> va.zscore,
                                     volume |-> total_volume,
                                     vpin |-> vpin,
                                     whale_count |-> Len(whales),
                                     price_volume_corr |-> corr.corr,
                                     days_to_close |-> days]
                     IN  /\ LogAnomaly(ticker, "volume", score, details)
                         /\ baselines' = out.table
                         /\ detOut' = [fn |-> "run_anomaly_detection",
                                       ticker |-> ticker,
                                       close_date |-> market.close_date,
                                       stage |-> "logged",
                                       details |-> details, score |-> score]
                         /\ UNCHANGED <<batches, norm, profiles>>

\* ---- update_trader_profiles ------------------------------------------------

\* detector.py:35, soft_whale_threshold_usd, in dollars
SoftWhaleThresholdUsd == 1000

\* detector.py:341, the default lookback_days
DefaultLookbackDays == 7

\* detector.py:345-349, filter(Trade.timestamp >= cutoff).all()
TradesInWindow(table, cutoff) ==
    SelectSeq(table, LAMBDA r : r.timestamp >= cutoff)

\* detector.py:353, `if not t.trader_id`
NoTrader(r) == Falsy(r.trader_id, "")

\* detector.py:362, float(t.volume * t.price / 100.0), in cents
ValueUsd(r) == r.volume * r.price

\* mutant: a trade of a trader already seen replaces the trader's totals
AddTradeLastWins(stats, r) ==
    LET hit == {k \in DOMAIN stats : stats[k].trader_id = r.trader_id[1]}
    IN  IF hit = {}
        THEN Append(stats, [trader_id |-> r.trader_id[1],
                            total_volume_usd |-> ValueUsd(r),
                            total_trades |-> 1])
        ELSE [k \in DOMAIN stats |->
                 IF k \in hit
                 THEN [stats[k] EXCEPT !.total_volume_usd = ValueUsd(r),
                                       !.total_trades = 1]
                 ELSE stats[k]]

\* detector.py:355-364, stats.setdefault(trader_id, zeros) and the two
\* additions; the dict keeps the traders in the order first seen
AddTrade(stats, r) ==
    LET hit == {k \in DOMAIN stats : stats[k].trader_id = r.trader_id[1]}
    IN  IF hit = {}
        THEN Append(stats, [trader_id |-> r.trader_id[1],
                            total_volume_usd |-> ValueUsd(r),
                            total_trades |-> 1])
        ELSE [k \in DOMAIN stats |->
                 IF k \in hit
                 THEN [stats[k] EXCEPT
                          !.total_volume_usd = @ + ValueUsd(r),
                          !.total_trades = @ + 1]
                 ELSE stats[k]]

RECURSIVE TraderStats(_, _)
\* detector.py:351-364, the loop over the trades of the window
TraderStats(rows, stats) ==
    IF rows = << >> THEN stats
    ELSE TraderStats(Tail(rows),
                     IF NoTrader(Head(rows)) THEN stats
                     ELSE AddTrade(stats, Head(rows)))

\* detector.py:372, total_volume_usd / max(total_trades, 1), in thousandths
\* of a cent
AvgTradeSize(s) == Ratio(s.total_volume_usd, Max(s.total_trades, 1))

\* detector.py:374, total_volume_usd >= soft_whale_threshold_usd
IsWhaleTrader(s) == s.total_volume_usd >= SoftWhaleThresholdUsd * 100

\* detector.py:366-390, one trader of the loop over stats: the first row
\* of the trader is updated, or a row is added
UpsertProfile(table, s, at) ==
    LET hit == {k \in DOMAIN table : table[k].trader_id = s.trader_id}
    IN  IF hit # {}
        THEN LET i == CHOOSE k \in hit : \A l \in hit : k <= l
             IN  [table EXCEPT
                     ![i].total_volume_usd = s.total_volume_usd,
                     ![i].total_trades = s.total_trades,
                     ![i].avg_trade_size_usd = AvgTradeSize(s),
                     ![i].is_whale = IsWhaleTrader(s)]
        ELSE Append(table, [trader_id |-> s.trader_id,
                            total_volume_usd |-> s.total_volume_usd,
                            total_trades |-> s.total_trades,
                            avg_trade_size_usd |-> AvgTradeSize(s),
                            is_whale |-> IsWhaleTrader(s),
                            first_seen |-> at])

RECURSIVE UpsertProfiles(_, _, _)
\* detector.py:366-390, the loop over stats
UpsertProfiles(table, stats, at) ==
    IF stats = << >> THEN table
    ELSE UpsertProfiles(UpsertProfile(table, Head(stats), at), Tail(stats), at)

\* detector.py:341-392
UpdateTraderProfiles(lookback_days) ==
    LET at     == NowMinutes
        cutoff == at - lookback_days * 24 * 60
        stats  == TraderStats(TradesInWindow(trades, cutoff), << >>)
    IN  /\ profiles' = UpsertProfiles(profiles, stats, at)
        /\ detOut' = [fn |-> "update_trader_profiles",
                      lookback_days |-> lookback_days, cutoff |-> cutoff]
        /\ UNCHANGED <<baselines, batches, norm>>
        /\ UNCHANGED <<logVars, reqVars, rlVars, ingVars, pageVars, fanVars>>

InitDetector ==
    /\ baselines = << >>
    /\ profiles = << >>
    /\ batches = << >>
    /\ detOut = [fn |-> "none"]

\* ---- the calls the detector is driven with ---------------------------------
StoreStep == \E b \in TradeBlocks : StoreTrades("MKT1", b)

BaselineStep == \E t \in Tickers : CalculateBaseline(t)

\* the volume of the current window, from none to a surge
CurrentVolumes == {0, 1, 10, 3000}

VolumeStep == \E v \in CurrentVolumes : DetectVolumeAnomaly("MKT1", v)

\* window sizes a caller may pass, or none
Windows == Opt({0, MinTrades - 1, MinTrades, VpinWindowTrades + 10})

VpinStep == \E w \in Windows : CalculateVpin("MKT1", w)

\* thresholds a caller may pass, in dollars, or none
Thresholds == Opt({0, 50, 5000})

WhaleStep == \E th \in Thresholds : DetectWhaleTrades("MKT1", th)

CorrStep == DetectPriceVolumeCorrelation("MKT1")

\* the job over markets of every close date
DetectMarketStep == \E m \in ActiveMarkets : DetectMarket(m)

\* the job over markets without a close date
DetectUndatedStep ==
    \E t \in Tickers : DetectMarket([ticker |-> t, close_date |-> << >>])

\* the batches of the last hour that make a volume surge: ten small trades
\* and one very large one
SurgeBlocks == {b \in TradeBlocks : b.age = 0 /\ b.n \in {1, MinTrades}}

StoreSurgeStep == \E b \in SurgeBlocks : StoreTrades("MKT1", b)

\* arguments of calculate_anomaly_score: in and out of the ranges the
\* signal calculators produce
ZScores == {0, 2500, 9000}
DayCounts == {0 - 1, 0, 1, 2, 3, 4, 7, 8, 14, 15, NoCloseDays}
Vpins == {0 - 500, 600, 1500}
Corrs == {0 - 700, 0, 1500}
WhaleCounts == {0 - 1, 1, 3}

ScoreStep ==
    \E z \in ZScores, d \in DayCounts, v \in Vpins, c \in Corrs,
       w \in WhaleCounts : CalculateAnomalyScore(z, 0, d, v, c, w)

\* batches of trades with a trader id, without one, or with an empty one:
\* two trades of 500 dollars, one of 600 dollars, three of 33 cents, and a
\* trade of 3000 dollars that is about to leave the default window
TraderBlocks ==
    {[n |-> 2, volume |-> 1000, price |-> 50, side |-> "yes", age |-> 0,
      trader |-> <<"u1">>],
     [n |-> 1, volume |-> 1000, price |-> 60, side |-> "no", age |-> 0,
      trader |-> <<"u1">>],
     [n |-> 3, volume |-> 1, price |-> 33, side |-> "yes", age |-> 0,
      trader |-> <<"u2">>],
     [n |-> 1, volume |-> 3000, price |-> 100, side |-> "yes",
      age |-> DefaultLookbackDays * 24 * 60 - 80, trader |-> <<"u2">>],
     [n |-> 1, volume |-> 10, price |-> 50, side |-> "yes", age |-> 0,
      trader |-> << >>],
     [n |-> 1, volume |-> 10, price |-> 50, side |-> "no", age |-> 0,
      trader |-> <<"">>]}

StoreTraderStep == \E b \in TraderBlocks : StoreTrades("MKT1", b)

\* the windows the profile job is run with
LookbackDays == {1, DefaultLookbackDays}

ProfilesStep == \E d \in LookbackDays : UpdateTraderProfiles(d)

NextBaseline == StoreStep \/ BaselineStep \/ VolumeStep

NextSignals == StoreStep \/ VpinStep \/ WhaleStep \/ CorrStep

NextDetect == StoreStep \/ BaselineStep \/ DetectUndatedStep

NextUrgency == StoreSurgeStep \/ DetectMarketStep

NextScore == ScoreStep

NextProfiles == StoreTraderStep \/ ProfilesStep \/ LogTick

----------------------------------------------------------------------------
(* Detection passes over the logger, and the specifications *)

\* a detection pass logging an anomaly: two markets, two scores, two payloads
DetectStep ==
    \E t \in Tickers, ty \in AnomalyTypes, s \in Scores, d \in Details :
        LogAnomaly(t, ty, s, d) /\ UNCHANGED detVars

\* a detection pass on one market, with a score at any of the band boundaries
DetectBandStep ==
    \E s \in BandScores : LogAnomaly("MKT1", "volume", s, "d1") /\ UNCHANGED detVars

ResolveStep == \E i \in DOMAIN anomalies : MarkResolved(i)

NextLogger == DetectStep \/ ResolveStep \/ LogTick

NextSeverity == DetectBandStep \/ ResolveStep \/ LogTick

\* the detection passes of several workers on one market
PassReadStep ==
    \E p \in Passes, s \in Scores : PassRead(p, "MKT1", "volume", s, "d1")

PassWriteStep == \E p \in Passes : PassWrite(p)

NextRace == PassReadStep \/ PassWriteStep \/ LogTick

Init ==
    /\ InitLogger /\ InitRequest /\ InitRateLimit
    /\ InitIngest /\ InitOverlap /\ InitPaging /\ InitFanOut
    /\ InitDetector /\ InitNormalize

SpecLogger == Init /\ [][NextLogger]_vars

SpecSeverity == Init /\ [][NextSeverity]_vars

SpecRace == Init /\ [][NextRace]_vars

SpecRequest == Init /\ [][NextRequest]_vars

SpecRateShared == Init /\ [][NextRateShared]_vars

SpecRateFallback == Init /\ [][NextRateFallback]_vars

SpecRateLocal == Init /\ [][NextRateLocal]_vars

SpecIngest == Init /\ [][NextIngest]_vars

SpecJob == Init /\ [][NextJob]_vars

SpecOverlap == Init /\ [][NextOverlap]_vars

SpecPaging == Init /\ [][NextPaging]_vars

SpecPagingCapped == Init /\ [][NextPagingCapped]_vars

SpecFanOut == Init /\ [][NextFanOut]_vars

SpecNormalize == Init /\ [][NextNormalize]_vars

SpecBaseline == Init /\ [][NextBaseline]_vars

SpecSignals == Init /\ [][NextSignals]_vars

SpecDetect == Init /\ [][NextDetect]_vars

SpecUrgency == Init /\ [][NextUrgency]_vars

SpecScore == Init /\ [][NextScore]_vars

SpecProfiles == Init /\ [][NextProfiles]_vars

----------------------------------------------------------------------------
(* Properties of the anomaly logger *)

\* the severity banding as the design states it
Band(score) ==
    CASE score >= 8000 -> "critical"
      [] score >= 7000 /\ score < 8000 -> "high"
      [] score >= 5000 /\ score < 7000 -> "medium"
      [] OTHER -> "low"

SeverityRank(sev) ==
    CASE sev = "low" -> 0
      [] sev = "medium" -> 1
      [] sev = "high" -> 2
      [] sev = "critical" -> 3

\* row i is an unresolved anomaly of (t, ty) detected within the last hour
RecentUnresolved(i, t, ty) ==
    /\ anomalies[i].ticker = t
    /\ anomalies[i].anomaly_type = ty
    /\ ~anomalies[i].resolved
    /\ clock - anomalies[i].detected_at <= HourTicks

C9_SeverityIsBandOfScore ==
    \A i \in DOMAIN anomalies :
        anomalies[i].severity = Band(anomalies[i].score)

----------------------------------------------------------------------------
(* Properties of the retrying request executor *)

\* a 4xx answer other than 429 and 404
NonRetryable4xx(o) ==
    /\ o.kind = "response"
    /\ o.status >= 400 /\ o.status < 500
    /\ o.status # 429 /\ o.status # 404

\* a connection failure, a timeout, a 5xx answer or a 429 answer
RetryableOutcome(o) ==
    \/ o.kind \in {"connect_error", "timeout"}
    \/ o.kind = "response" /\ (o.status >= 500 \/ o.status = 429)

IsNotFound(o) == o.kind = "response" /\ o.status = 404

IsSuccess(o) == o.kind = "response" /\ o.status = 200 /\ o.json_ok

\* the call in progress has ended: _request returned or raised
CallEnded == reqPc \in {"returned", "idle"} /\ outcomes # << >>

\* C2: a call whose transport answered only with 4xx other than 429 and 404
\* has made exactly one attempt, has ended by raising and has not waited.
C2_ClientErrorNotRetried ==
    (/\ outcomes # << >>
     /\ \A i \in DOMAIN outcomes : NonRetryable4xx(outcomes[i]))
    => /\ Len(outcomes) = 1
       /\ CallEnded
       /\ reqResult.kind = "raise"
       /\ waits = << >>

\* C3: a call whose first two attempts end in a retryable outcome goes on
\* to a third attempt, and when that one succeeds the call has made exactly
\* three attempts and returns the successful response.
C3_TwoFailuresThenSuccess ==
    /\ \A k \in 1..2 :
          (/\ Len(outcomes) = k
           /\ \A i \in 1..k : RetryableOutcome(outcomes[i]))
          => /\ reqPc \in {"sleep", "attempt"}
             /\ reqResult.kind = "none"
    /\ (/\ Len(outcomes) >= 3
        /\ RetryableOutcome(outcomes[1])
        /\ RetryableOutcome(outcomes[2])
        /\ IsSuccess(outcomes[3]))
       => /\ Len(outcomes) = 3
          /\ CallEnded
          /\ reqResult.kind = "return"
          /\ DOMAIN reqResult.data # {}

\* C3 witness: a connection failure, then a 429, then a success
C3_Witness ==
    /\ Len(outcomes) = 3
    /\ outcomes[1].kind = "connect_error"
    /\ outcomes[2].kind = "response" /\ outcomes[2].status = 429
    /\ IsSuccess(outcomes[3])
    /\ reqPc = "returned"
    /\ reqResult.kind = "return"

\* C4: a call makes at most three attempts and has ended once it has made
\* three; what it raises is the exception of its last attempt, never a
\* wrapper.
C4_AtMostThreeAttemptsReraise ==
    /\ Len(outcomes) <= 3
    /\ Len(outcomes) = 3 => CallEnded
    /\ (CallEnded /\ reqResult.kind = "raise")
       => /\ reqResult.exc = RaisedBy(outcomes[Len(outcomes)])
          /\ reqResult.exc # "RetryError"

\* C4 witness: three failed attempts, the call has raised
C4_Witness ==
    /\ Len(outcomes) = 3
    /\ \A i \in 1..3 : RaisedBy(outcomes[i]) # "none"
    /\ reqPc = "returned"
    /\ reqResult.kind = "raise"
    /\ Len(waits) = 2

\* C5: a call ends as soon as the transport answers 404: it returns the
\* empty result and raises nothing; when the first answer is 404 there was
\* exactly one attempt and no wait; the fetcher then yields no items.
C5_NotFoundIsEmptyResult ==
    /\ (outcomes # << >> /\ IsNotFound(outcomes[Len(outcomes)]))
       => /\ CallEnded
          /\ reqResult.kind = "return"
          /\ DOMAIN reqResult.data = {}
          /\ reqPc = "idle" => (fetched.kind = "return" /\ fetched.items = << >>)
    /\ (outcomes # << >> /\ IsNotFound(outcomes[1]))
       => (Len(outcomes) = 1 /\ waits = << >>)

\* C5 witness: a fetcher has returned after a single 404 answer
C5_Witness ==
    /\ Len(outcomes) = 1
    /\ IsNotFound(outcomes[1])
    /\ reqPc = "idle"
    /\ fetched.kind = "return"
    /\ fetched.items = << >>

----------------------------------------------------------------------------
(* Properties of the ingestion run *)

RECURSIVE TotalVolume(_)
\* the aggregate stored volume
TotalVolume(table) ==
    IF table = << >> THEN 0 ELSE Head(table).volume + TotalVolume(Tail(table))

RecordIds(recs) == {recs[k].trade_id : k \in DOMAIN recs}

\* the volume a batch carries for a trade id: that of the id's first record
FirstVolume(recs, id) ==
    LET first == CHOOSE k \in DOMAIN recs :
                    /\ recs[k].trade_id = id
                    /\ \A j \in DOMAIN recs : recs[j].trade_id = id => k <= j
    IN  recs[first].volume

RECURSIVE SumOver(_, _)
SumOver(recs, ids) ==
    IF ids = {} THEN 0
    ELSE LET id == CHOOSE x \in ids : TRUE
         IN  FirstVolume(recs, id) + SumOver(recs, ids \ {id})

C12_StoredTradeImmutable ==
    [][\A i \in DOMAIN trades :
          i \in DOMAIN trades' /\ trades'[i] = trades[i]]_vars

\* C12 witness: a record with a stored trade id and other field values has
\* just gone through the insert
C12_Witness ==
    /\ lastIng.op = "inserted"
    /\ lastIng.differing
    /\ Len(trades) >= 1

\* C13: while the run is fetching trades the upsert of its markets has been
\* committed, and whenever the run executes the trade insert for a market of
\* the fetched list, that market's row exists in the store.
C13_TradeInsertFindsMarketRow ==
    /\ runPc = "trades" => MarketData(runMarkets) \subseteq marketRows
    /\ lastIng.op \in {"inserted", "rejected"} => lastIng.ticker \in marketRows

\* C14: once the error counter of a run is over the ceiling, the run
\* processes no further market, whichever error took the counter there.
C14_NoMarketAfterCeiling ==
    [][error_count > ErrorCeiling => ~ProcessStep]_vars

\* C15: when a fetched batch holds malformed records, each of them is
\* counted once and skipped, every well-formed record of the batch is in the
\* store afterwards, and the run goes on to the next market.
C15_MalformedRecordIsolated ==
    [][\A f \in TradeFetches :
          (f.kind = "trades" /\ f.bad >= 1 /\ IngProcessMarket(f)) =>
              /\ RecordIds(f.good) \subseteq StoredIds(trades')
              /\ error_count' = error_count + f.bad
                                + (IF lastIng'.op = "rejected" THEN 1 ELSE 0)
              /\ runPc' = "trades"
              /\ runIdx' = runIdx + 1]_vars

----------------------------------------------------------------------------
(* Properties of the cursor pagination *)

RECURSIVE FollowFrom(_, _)
\* the pages obtained by following the cursor from page k until a page is
\* empty or carries no cursor, concatenated in page order
FollowFrom(server, k) ==
    LET page == GetPage(server, k)
    IN  IF page.items = << >> THEN << >>
        ELSE IF page.cursor = NoCursor THEN page.items
        ELSE page.items \o FollowFrom(server, page.cursor)

\* the first n items of a sequence
Take(seq, n) == SubSeq(seq, 1, Min(n, Len(seq)))

\* C18: a fetch-all call returns the concatenation, in page order, of the
\* pages followed from the first until a page is empty or carries no cursor;
\* when a maximum item count is given the result is that concatenation
\* truncated to the maximum, so that it is never longer than the maximum.
C18_ConcatenationCappedAtMax ==
    pgPc = "returned" =>
        /\ all_items = IF pgMax = NoMax THEN FollowFrom(pgServer, 1)
                       ELSE Take(FollowFrom(pgServer, 1), pgMax)
        /\ pgMax # NoMax => Len(all_items) <= pgMax

----------------------------------------------------------------------------
(* Properties of the fan-out *)

\* C16: at no time are more than max_concurrent per-event fetches in flight,
\* and every event's fetch is started and completed: when the call has
\* ended, no event is left whose fetch has not completed.
C16_BoundedFanOutCompletes ==
    /\ InFlight <= MaxConcurrent
    /\ fanCall \in {"returned", "raised"} =>
           \A i \in DOMAIN fanPc : fanPc[i] = "done"

\* C17: a failure while processing one event, whatever its cause, gives an
\* empty result for that event only: the call raises nothing, and what it
\* returns is the markets of the events whose fetch succeeded, in event
\* order.
C17_EventFailureIsolated ==
    /\ fanCall # "raised"
    /\ fanCall = "returned" => fanReturn = Flatten(fanResults)

----------------------------------------------------------------------------
(* Properties of the rate limiter *)

\* the number of requests let through in the window [s, s + Window)
ReleasedInWindow(s) ==
    Cardinality({i \in DOMAIN released :
                    released[i].at >= s /\ released[i].at < s + Window})

\* C1: under the shared strategy no one-second sliding window contains more
\* than max_rps requests let through to the transport.
C1_WindowWithinMaxRps ==
    \A s \in 0..RlMaxTime : ReleasedInWindow(s) <= MaxRps

\* C19: when the shared store fails during a rate-limit call under the
\* shared strategy, the call takes the local limiter's path and returns
\* normally: either the request is let through at once, or the caller
\* sleeps the remainder of the instance's minimum interval (after which the
\* request is let through); the failure never leaves the limiter.
C19_StoreFailureFallsBackToLocal ==
    [][\A c \in Coroutines, e \in StoreErrors :
          RlAcquire(c, e) =>
              \/ /\ rlPc'[c] = "idle"
                 /\ released' = Append(released, [at |-> now, by |-> InstanceOf(c)])
                 /\ now - lastRequestTime[InstanceOf(c)] >= MinRequestInterval
              \/ /\ rlPc'[c] = "sleep_local"
                 /\ wakeAt'[c] = lastRequestTime[InstanceOf(c)] + MinRequestInterval
                 /\ now - lastRequestTime[InstanceOf(c)] < MinRequestInterval]_vars

\* C19 witness: after store failures one caller is sleeping in the local
\* limiter and a request of its instance has been let through
C19_Witness ==
    \E c \in Coroutines :
        /\ rlPc[c] = "sleep_local"
        /\ \E i \in DOMAIN released : released[i].by = InstanceOf(c)

\* C20: under the local strategy any two requests let through by the same
\* client instance are at least one minimum interval (1/max_rps) apart, also
\* when several coroutines of the instance call the limiter concurrently.
C20_LocalReleasesSpaced ==
    \A i, j \in DOMAIN released :
        (i < j /\ released[i].by = released[j].by) =>
            released[j].at - released[i].at >= MinRequestInterval


----------------------------------------------------------------------------
(* Properties of the detector *)

\* the trades of a ticker stored within the last `minutes` minutes
StoredSince(t, minutes) ==
    {i \in DOMAIN trades :
        trades[i].ticker = t /\ trades[i].timestamp >= NowMinutes - minutes}

\* the detection job's iteration for a market without a close date
UndatedRun(t) == DetectMarket([ticker |-> t, close_date |-> << >>])

\* C21: with fewer than 10 trades of the market in the 30-day window,
\* calculate_baseline returns None and leaves the baselines table as it
\* was, and the detection job's iteration for the market logs no anomaly
C21_TooFewTradesNoBaseline ==
    [][\A t \in Tickers :
         Cardinality(StoredSince(t, 30 * 1440)) < 10 =>
            /\ (detOut'.fn = "calculate_baseline" /\ CalculateBaseline(t)) =>
                  /\ detOut'.ret = << >>
                  /\ baselines' = baselines
                  /\ anomalies' = anomalies
            /\ (detOut'.fn = "run_anomaly_detection" /\ UndatedRun(t)) =>
                  /\ detOut'.stage = "no_baseline"
                  /\ baselines' = baselines
                  /\ anomalies' = anomalies]_vars

\* the job has just skipped a market that has ten stored trades or more,
\* fewer than ten of them inside the window
C21_Witness ==
    /\ detOut.fn = "run_anomaly_detection"
    /\ detOut.ticker = "MKT1"
    /\ detOut.stage = "no_baseline"
    /\ Len(trades) >= 10
    /\ StoredSince("MKT1", 30 * 1440) # {}

\* the baseline rows of a ticker
BaselineRowsOf(table, t) == {i \in DOMAIN table : table[i].ticker = t}

C23_ZeroStdNoAnomaly ==
    (/\ detOut.fn = "detect_volume_anomaly"
     /\ \E i \in BaselineRowsOf(baselines, detOut.ticker) :
            baselines[i].std_volume = 0)
    => detOut.ret = [is_anomaly |-> FALSE, zscore |-> 0, raised |-> "no"]

\* the call with a current volume of 10 against a baseline of trades that
\* all have one volume
C23_Witness ==
    /\ detOut.fn = "detect_volume_anomaly"
    /\ detOut.total_volume = 10
    /\ Len(baselines) = 1
    /\ baselines[1].std_volume = 0
    /\ baselines[1].avg_volume = 1000
    /\ detOut.ret.zscore = 0

\* the stored trades of a ticker
StoredOf(t) == SelectSeq(trades, LAMBDA r : r.ticker = t)

\* the n most recent of them: those with at most n trades at or after their
\* own time
NewestOf(t, n) ==
    SelectSeq(StoredOf(t), LAMBDA r :
        Cardinality({i \in DOMAIN trades :
                        /\ trades[i].ticker = t
                        /\ trades[i].timestamp >= r.timestamp}) <= n)

\* the window a call asks for: the size passed, 50 when none is passed
AskedWindow(window_trades) ==
    IF window_trades = << >> THEN 50 ELSE window_trades[1]

\* |buy - sell| / (buy + sell) over rows, yes as buy and no as sell, in
\* thousandths; 0 when nothing was traded on either side
Imbalance(rows) ==
    LET buy  == Sum(VolumesOf(SelectSeq(rows, LAMBDA r : r.side = "yes")))
        sell == Sum(VolumesOf(SelectSeq(rows, LAMBDA r : r.side = "no")))
    IN  IF buy + sell = 0 THEN 0
        ELSE (Abs(buy - sell) * 1000) \div (buy + sell)

\* C24 as stated: over at least 10 stored trades, calculate_vpin returns the
\* imbalance of the N most recent trades (N the size passed, 50 by default)
C24_VpinOverMostRecent ==
    (/\ detOut.fn = "calculate_vpin"
     /\ Len(StoredOf(detOut.ticker)) >= 10)
    => detOut.ret =
          Imbalance(NewestOf(detOut.ticker, AskedWindow(detOut.window_trades)))

\* C24 amended: when the N most recent trades number at least 10,
\* calculate_vpin returns their imbalance, a value between 0 and 1: 0 when
\* the two sides are equal or empty, 1 when all the volume is on one side
C24_VpinOverWindowOfTen ==
    LET rows == NewestOf(detOut.ticker, AskedWindow(detOut.window_trades))
        buy  == Sum(VolumesOf(SelectSeq(rows, LAMBDA r : r.side = "yes")))
        sell == Sum(VolumesOf(SelectSeq(rows, LAMBDA r : r.side = "no")))
    IN  (detOut.fn = "calculate_vpin" /\ Len(rows) >= 10) =>
            /\ detOut.ret = Imbalance(rows)
            /\ detOut.ret >= 0 /\ detOut.ret <= 1000
            /\ buy = sell => detOut.ret = 0
            /\ (buy + sell > 0 /\ (buy = 0 \/ sell = 0)) => detOut.ret = 1000

\* a call with the default window over 40 yes trades and 10 no trades of
\* volume 1 has returned 0.6
C24_Witness ==
    /\ detOut.fn = "calculate_vpin"
    /\ detOut.window_trades = << >>
    /\ Len(trades) = 50
    /\ Len(SelectSeq(trades, LAMBDA r : r.side = "yes" /\ r.volume = 1)) = 40
    /\ Len(SelectSeq(trades, LAMBDA r : r.side = "no" /\ r.volume = 1)) = 10
    /\ detOut.ret = 600

\* the trades of the last hour
LastHour(t) == SelectSeq(trades, LAMBDA r :
                   r.ticker = t /\ r.timestamp >= NowMinutes - 60)

\* a series without variance: all its values are one value
Constant(xs) == \A i, j \in DOMAIN xs : xs[i] = xs[j]

ThresholdInForce(threshold_usd) ==
    IF threshold_usd = << >> THEN 3000 ELSE threshold_usd[1]

\* C26: detect_whale_trades returns exactly the ticker's trades of the last
\* 24 hours whose value volume * price / 100 reaches the threshold in force
C26_WhalesMeetThresholdInForce ==
    detOut.fn = "detect_whale_trades" =>
        {detOut.ret[k].trade_id : k \in DOMAIN detOut.ret} =
            {trades[i].trade_id : i \in
                {j \in StoredSince(detOut.ticker, 24 * 60) :
                    trades[j].volume * trades[j].price >=
                        100 * ThresholdInForce(detOut.threshold_usd)}}

\* the claimed urgency of a whole number of days to close
ClaimedUrgency(days) ==
    CASE days <= 0  -> 4000
      [] days = 1   -> 3500
      [] days \in 2..3  -> 3000
      [] days \in 4..7  -> 2000
      [] days \in 8..14 -> 1000
      [] OTHER -> 0

\* C27: the score the detection job logs holds the urgency 4.0, 3.5, 3.0,
\* 2.0, 1.0 or 0.0 of the market's days to close (at most 0, 1, 3, 7, 14,
\* or more), and a market without a close date gets 999 days and urgency 0
C27_UrgencySteps ==
    (detOut.fn = "run_anomaly_detection" /\ detOut.stage = "logged") =>
        LET d == detOut.details
        IN  /\ detOut.score =
                  VolumeScore(d.zscore) + VpinScore(d.vpin)
                     + CorrScore(d.price_volume_corr)
                     + WhaleScore(d.whale_count)
                     + ClaimedUrgency(d.days_to_close)
            /\ detOut.close_date = << >> =>
                  d.days_to_close = 999 /\ ClaimedUrgency(d.days_to_close) = 0

\* the job has logged an anomaly for a market without a close date
C27_Witness ==
    /\ detOut.fn = "run_anomaly_detection"
    /\ detOut.stage = "logged"
    /\ detOut.close_date = << >>
    /\ detOut.details.days_to_close = 999
    /\ anomalies # << >>

\* x held between lo and hi
Clamp(x, lo, hi) == IF x < lo THEN lo ELSE IF x > hi THEN hi ELSE x

\* C28: the score is the sum of five components, each held in its range for
\* every input: volume max(z - 2, 0) in [0, 5], vpin * 3 in [0, 3], urgency
\* in [0, 4], |corr| * 3 in [0, 3], whale count * 1.5 in [0, 3]; the sum is
\* not clamped and lies in [0, 18]
C28_ComponentsClamped ==
    detOut.fn = "calculate_anomaly_score" =>
        /\ detOut.volume_score = Clamp(detOut.volume_zscore - 2000, 0, 5000)
        /\ detOut.vpin_score = Clamp(detOut.vpin * 3, 0, 3000)
        /\ detOut.urgency_score = ClaimedUrgency(detOut.days_to_close)
        /\ detOut.corr_score = Clamp(Abs(detOut.price_volume_corr) * 3, 0, 3000)
        /\ detOut.whale_score = Clamp(detOut.whale_count * 1500, 0, 3000)
        /\ detOut.ret = detOut.volume_score + detOut.vpin_score
                          + detOut.urgency_score + detOut.corr_score
                          + detOut.whale_score
        /\ detOut.ret >= 0 /\ detOut.ret <= 18000

----------------------------------------------------------------------------
(* Properties of trade normalization *)

\* the claimed priority rule: the first field present supplies the value
RECURSIVE FirstPresent(_, _)
FirstPresent(fields, default) ==
    IF fields = << >> THEN default
    ELSE IF Head(fields) # << >> THEN Head(fields)[1]
    ELSE FirstPresent(Tail(fields), default)

\* the row ingestion built from the last record, if it built one
IngestedRow == norm.by = "update_market_data" /\ norm.row # << >>

\* C29: every trade row ingestion builds for storage has a volume of at
\* least 1 and a price between 0 and 100 (0 and 1000 tenths), whatever the
\* record's fields hold
C29_StoredTradeInRange ==
    IngestedRow =>
        /\ norm.row[1].volume >= 1
        /\ norm.row[1].price >= 0
        /\ norm.row[1].price <= 1000

\* C30: the stored price is that of yes_price, else price; the stored volume
\* that of count, else volume, else size, else 1; the stored side that of
\* taker_side, else side, else unknown: the first field present supplies it
C30_FirstPresentFieldSupplies ==
    IngestedRow =>
        LET raw == norm.raw
            row == norm.row[1]
        IN  /\ row.price = FirstPresent(<<raw.yes_price, raw.price>>, 0)
            /\ row.volume * 10 =
                   FirstPresent(<<raw.count, raw.volume, raw.size>>, 10)
            /\ row.side = FirstPresent(<<raw.taker_side, raw.side>>, "unknown")

----------------------------------------------------------------------------
(* Properties of the ingestion job *)

C39_NoMarketsEndsQuietly ==
    jobEnd.fallback = "empty_page"
        => /\ jobEnd.state = "returned"
           /\ ~jobEnd.rolled_back
           /\ lastIng.op = "no_markets"

----------------------------------------------------------------------------
(* Properties of the trader profiles *)

\* update_trader_profiles was the last call of the detector
ProfileRun == detOut.fn = "update_trader_profiles"

\* the stored trades of the trader inside the window of the last run
WindowTradesOf(u) ==
    {i \in DOMAIN trades : /\ trades[i].timestamp >= detOut.cutoff
                           /\ trades[i].trader_id = <<u>>}

\* the trader ids of the stored trades that have one
StoredTraders ==
    {trades[i].trader_id[1] :
        i \in {j \in DOMAIN trades : trades[j].trader_id \notin {<< >>, <<"">>}}}

RECURSIVE UsdOver(_)
\* the summed value of a set of stored trades, in cents
UsdOver(S) ==
    IF S = {} THEN 0
    ELSE LET i == CHOOSE j \in S : TRUE
         IN  trades[i].volume * trades[i].price + UsdOver(S \ {i})

ProfilesOf(u) == {k \in DOMAIN profiles : profiles[k].trader_id = u}

\* count, value and average of the trader's trades of the window
TotalsMatch(row, W) ==
    /\ row.total_trades = Cardinality(W)
    /\ row.total_volume_usd = UsdOver(W)
    /\ row.avg_trade_size_usd = Ratio(UsdOver(W), Cardinality(W))

C33_ProfilesReflectWindowOnly ==
    ProfileRun =>
        \A k \in DOMAIN profiles :
            LET W == WindowTradesOf(profiles[k].trader_id)
            IN  /\ profiles[k].total_trades = Cardinality(W)
                /\ profiles[k].total_volume_usd = UsdOver(W)
                /\ profiles[k].is_whale
                     <=> UsdOver(W) >= SoftWhaleThresholdUsd * 100

----------------------------------------------------------------------------
(* Properties of concurrent detection passes *)

\* the row is an unresolved anomaly of the (ticker, type) detected within
\* the hour before the time at
RecentTwin(row, t, ty, at) ==
    /\ row.ticker = t
    /\ row.anomaly_type = ty
    /\ ~row.resolved
    /\ at - row.detected_at <= HourTicks

----------------------------------------------------------------------------
(* Properties of the request executor's rate limiting and metrics *)

\* the positions of the sends in the trace of the call
Sends == {i \in DOMAIN reqTrace : reqTrace[i] = "send"}

\* C35: every send of a call, the first attempt's and each retry's, comes
\* right after a rate-limit acquisition of its own; the call has sent as
\* many requests as its transport has had outcomes.
C35_SendAfterOwnAcquisition ==
    /\ \A i \in Sends : i > 1 /\ reqTrace[i - 1] = "acquire"
    /\ Cardinality(Sends) = Len(outcomes)

\* a call that went through all its attempts
C35_Witness ==
    /\ reqPc = "returned"
    /\ Len(outcomes) = MaxAttempts
    /\ Cardinality(Sends) = MaxAttempts

\* C36: the attempts counted in total are the attempts counted as
\* successful plus the attempts counted as failed.
C36_TotalIsSuccessPlusFailure ==
    metrics.total_requests
        = metrics.successful_requests + metrics.failed_requests

----------------------------------------------------------------------------
(* Properties of the pagination under a maximum *)

\* C37: a fetch-all call with a positive maximum item count makes at most
\* that many page requests, whatever cursors the exchange returns: after
\* as many requests as the maximum the call has ended.
C37_AtMostMaxPageRequests ==
    pgMax > 0 =>
        /\ page_num <= pgMax
        /\ page_num = pgMax => pgPc \in {"returned", "raised"}

\* a call that needed as many requests as its maximum, against a page
\* whose cursor names the page itself
C37_Witness ==
    /\ pgPc = "returned"
    /\ pgMax = MaxItemCap
    /\ page_num = pgMax
    /\ pgCursor \in DOMAIN pgServer
    /\ GetPage(pgServer, pgCursor).cursor = pgCursor

----------------------------------------------------------------------------
(* Properties of overlapping ingestion runs *)

RECURSIVE SumInserted(_)
SumInserted(S) ==
    IF S = {} THEN 0
    ELSE LET r == CHOOSE x \in S : TRUE
         IN  overlap[r].trades_inserted + SumInserted(S \ {r})

BatchIds(batch) == {batch[i].trade_id : i \in DOMAIN batch}

\* C38: however two overlapping runs interleave, the trades table holds
\* one row per trade id, every trade id of a statement that ended without
\* an error is stored, and once no statement is in progress the inserted
\* counts of the two runs add up to the number of distinct trade ids
\* stored.
C38_OneRowPerTradeCountsAddUp ==
    /\ \A i, j \in DOMAIN trades :
          trades[i].trade_id = trades[j].trade_id => i = j
    /\ (\A r \in Runs : overlap[r].pc \in {"new", "idle"}) =>
          /\ SumInserted(Runs) = Cardinality(StoredIds(trades))
          /\ \A r \in Runs :
                ~overlap[r].failed => BatchIds(overlap[r].batch) \subseteq StoredIds(trades)

\* both runs inserted batches holding the same two trade ids, the second
\* waited for the first one's uncommitted rows and then inserted nothing
C38_Witness ==
    /\ \A r \in Runs : overlap[r].pc = "idle" /\ ~overlap[r].failed
    /\ BatchIds(overlap[1].batch) = TradeIds
    /\ BatchIds(overlap[2].batch) = TradeIds
    /\ overlap[2].waited
    /\ overlap[1].trades_inserted = Cardinality(TradeIds)
    /\ overlap[2].trades_inserted = 0
    /\ Len(trades) = Cardinality(TradeIds)

====
